---- MODULE Spec2Model ----
(***************************************************************************)
(* Expense tracker (Flask routes in backend/app.py, data-access layer in   *)
(* backend/models.py, schema in backend/init_db.py) as a state machine.    *)
(*                                                                         *)
(* Amounts are typed into a form as text, converted by Python's float(),   *)
(* stored in a DECIMAL(10,2) column and converted back to float by         *)
(* safe_float.  A double is modelled bit for bit: a sign, a 53-bit         *)
(* mantissa (most significant bit first) and a binary exponent.            *)
(***************************************************************************)
EXTENDS Integers, Sequences, FiniteSets, TLC

\* ------------------------------------------------------------------------
\* Binary floating point (IEEE-754 double, round to nearest even)
\* ------------------------------------------------------------------------

MantBits == 53

DigitVal == [d \in {"0", "1", "2", "3", "4", "5", "6", "7", "8", "9"} |->
               CASE d = "0" -> 0 [] d = "1" -> 1 [] d = "2" -> 2 [] d = "3" -> 3
                 [] d = "4" -> 4 [] d = "5" -> 5 [] d = "6" -> 6 [] d = "7" -> 7
                 [] d = "8" -> 8 [] d = "9" -> 9]

IsDigit(ch) == ch \in DOMAIN DigitVal

Pow10(k) == 10 ^ k

\* Bit strings are sequences of 0/1, most significant bit first.  Numbers
\* wider than a machine word are handled in limbs of LimbBits bits.
LimbBits == 15
Limb == 2 ^ LimbBits

Zeros(k) == [i \in 1..k |-> 0]

\* n written on exactly w bits
BitsOfWidth(n, w) == [i \in 1..w |-> (n \div (2 ^ (w - i))) % 2]

StripZeros(bits) ==
  IF \A i \in 1..Len(bits) : bits[i] = 0 THEN << >>
  ELSE LET first == CHOOSE i \in 1..Len(bits) :
                      bits[i] = 1 /\ \A j \in 1..(i - 1) : bits[j] = 0
       IN  SubSeq(bits, first, Len(bits))

\* binary digits of n (n < 2^31), no leading zero
BitsOfNat(n) == StripZeros(BitsOfWidth(n, 31))

RECURSIVE NatOfBits(_)
NatOfBits(bits) ==
  IF bits = << >> THEN 0
  ELSE 2 * NatOfBits(SubSeq(bits, 1, Len(bits) - 1)) + bits[Len(bits)]

\* bits + 1
Increment(bits) ==
  IF \A i \in 1..Len(bits) : bits[i] = 1 THEN <<1>> \o Zeros(Len(bits))
  ELSE LET z == CHOOSE i \in 1..Len(bits) :
                  bits[i] = 0 /\ \A j \in (i + 1)..Len(bits) : bits[j] = 1
       IN  [i \in 1..Len(bits) |->
              IF i < z THEN bits[i] ELSE IF i = z THEN 1 ELSE 0]

RECURSIVE MulLimbs(_, _, _, _)
\* limbs j..1 of padded times c, carry in, most significant limb first
MulLimbs(padded, j, c, carry) ==
  IF j = 0 THEN BitsOfNat(carry)
  ELSE LET limb == NatOfBits(SubSeq(padded, (j - 1) * LimbBits + 1, j * LimbBits))
           v    == limb * c + carry
       IN  MulLimbs(padded, j - 1, c, v \div Limb) \o BitsOfWidth(v % Limb, LimbBits)

\* bits * c for a small constant c
MulSmall(bits, c) ==
  LET n      == (Len(bits) + LimbBits - 1) \div LimbBits
      padded == Zeros(n * LimbBits - Len(bits)) \o bits
  IN  StripZeros(MulLimbs(padded, n, c, 0))

FloatZero == [sign |-> 0, mant |-> << >>, exp |-> 0]

RECURSIVE FracBits(_, _, _)
\* n further limbs of the binary expansion of r/den, and the remainder
FracBits(r, den, n) ==
  IF n = 0 THEN [bits |-> << >>, rem |-> r]
  ELSE LET t == FracBits((r * Limb) % den, den, n - 1)
       IN  [bits |-> BitsOfWidth((r * Limb) \div den, LimbBits) \o t.bits,
            rem  |-> t.rem]

FracLimbs == 6

\* round to nearest, ties to even: sig holds the significant bits of the
\* expansion, sticky tells whether anything non-zero follows them
RoundNearestEven(sig, sticky) ==
  LET mant  == SubSeq(sig, 1, MantBits)
      guard == sig[MantBits + 1]
      rest  == \E i \in (MantBits + 2)..Len(sig) : sig[i] = 1
      up    == guard = 1 /\ (rest \/ sticky \/ mant[MantBits] = 1)
      inc   == Increment(mant)
  IN  IF ~up THEN [mant |-> mant, carry |-> 0]
      ELSE IF Len(inc) > MantBits
           THEN [mant |-> SubSeq(inc, 1, MantBits), carry |-> 1]
           ELSE [mant |-> inc, carry |-> 0]

\* the double nearest to (-1)^sign * num / den
NearestDouble(sign, num, den) ==
  IF num = 0 THEN [sign |-> sign, mant |-> << >>, exp |-> 0]
  ELSE LET fr  == FracBits(num % den, den, FracLimbs)
           sig == StripZeros(BitsOfNat(num \div den) \o fr.bits)
           m   == RoundNearestEven(sig, fr.rem # 0)
       IN  [sign |-> sign, mant |-> m.mant,
            exp  |-> Len(sig) - MantBits - FracLimbs * LimbBits + m.carry]

\* ------------------------------------------------------------------------
\* Amount conversions: form text -> float -> DECIMAL(10,2) -> float
\* ------------------------------------------------------------------------

RECURSIVE ParseAt(_, _, _, _, _, _)
\* digits with at most one decimal point, at least one digit
ParseAt(text, i, num, scale, dot, nd) ==
  IF i > Len(text) THEN [ok |-> nd > 0, num |-> num, scale |-> scale]
  ELSE IF IsDigit(text[i])
       THEN ParseAt(text, i + 1, 10 * num + DigitVal[text[i]],
                    IF dot THEN scale + 1 ELSE scale, dot, nd + 1)
       ELSE IF text[i] = "." /\ ~dot
            THEN ParseAt(text, i + 1, num, scale, TRUE, nd)
            ELSE [ok |-> FALSE, num |-> 0, scale |-> 0]

\* Python float(text): the nearest double, or ValueError (ok = FALSE)
PyFloat(text) ==
  LET neg  == text # << >> /\ text[1] = "-"
      body == IF neg THEN Tail(text) ELSE text
      p    == ParseAt(body, 1, 0, 0, FALSE, 0)
  IN  IF ~p.ok THEN [ok |-> FALSE, val |-> FloatZero]
      ELSE [ok |-> TRUE,
            val |-> NearestDouble(IF neg THEN 1 ELSE 0, p.num, Pow10(p.scale))]

\* |f| * 10^k split at the binary point: integer bits and fraction bits
ScaledParts(f, k) ==
  LET p == MulSmall(f.mant, Pow10(k))
  IN  IF f.exp >= 0 THEN [int |-> p \o Zeros(f.exp), frac |-> << >>]
      ELSE IF Len(p) + f.exp <= 0
           THEN [int |-> << >>, frac |-> Zeros(-(Len(p) + f.exp)) \o p]
           ELSE [int |-> SubSeq(p, 1, Len(p) + f.exp),
                 frac |-> SubSeq(p, Len(p) + f.exp + 1, Len(p))]

\* |f| * 10^k rounded to the nearest integer
RoundScaled(f, k) ==
  LET s == ScaledParts(f, k)
  IN  NatOfBits(s.int) + (IF s.frac # << >> /\ s.frac[1] = 1 THEN 1 ELSE 0)

RECURSIVE ShortestDecimal(_, _)
\* repr(float) of Python, which the driver sends as the literal: the decimal
\* with the fewest places that converts back to the same double
ShortestDecimal(f, k) ==
  LET n == RoundScaled(f, k)
  IN  IF f.mant = << >> THEN [num |-> 0, scale |-> 0]
      ELSE IF NearestDouble(f.sign, n, Pow10(k)) = f
           THEN [num |-> n, scale |-> k]
           ELSE ShortestDecimal(f, k + 1)

\* |value| rounded half away from zero to a whole number of units, in
\* hundredths
RoundToScale0(d) ==
  IF d.scale = 0 THEN d.num * 100
  ELSE ((d.num + 5 * Pow10(d.scale - 1)) \div Pow10(d.scale)) * 100

\* |value| rounded half away from zero to two places, in hundredths
RoundToScale2(d) ==
  IF d.scale <= 2 THEN d.num * Pow10(2 - d.scale)
  ELSE (d.num + 5 * Pow10(d.scale - 3)) \div Pow10(d.scale - 2)

WithSign(sign, c) == IF sign = 1 THEN -c ELSE c

\* the column declared DECIMAL(10), scale 0: the literal rounded half away
\* from zero to whole units
DecimalColumn_scale_0(f) == WithSign(f.sign, RoundToScale0(ShortestDecimal(f, 0)))

\* amount DECIMAL(10, 2): the literal rounded half away from zero to two
\* places, as a signed number of hundredths
DecimalColumn(f) == WithSign(f.sign, RoundToScale2(ShortestDecimal(f, 0)))

\* safe_float on the Decimal the driver returns for a DECIMAL value
\* (None gives 0.0)
safe_float(cents) ==
  IF cents < 0 THEN NearestDouble(1, -cents, 100)
  ELSE NearestDouble(0, cents, 100)

\* the double is exactly the decimal cents/100 (nothing lost in binary)
FloatIsExactly(f, cents) ==
  LET s == ScaledParts(f, 2)
      a == IF cents < 0 THEN -cents ELSE cents
  IN  /\ StripZeros(s.frac) = << >>
      /\ NatOfBits(s.int) = a
      /\ (a # 0 => f.sign = (IF cents < 0 THEN 1 ELSE 0))

\* ------------------------------------------------------------------------
\* Bounds and inputs
\* ------------------------------------------------------------------------

MaxUserId == 2        \* AUTO_INCREMENT of users stops here
MaxExpenseId == 2     \* AUTO_INCREMENT of expenses stops here
MaxDate == 2          \* expense dates are the days 1..MaxDate
MaxCents == 60        \* two-decimal amounts 0.00 .. MaxCents/100 (SpecAmount)

Clients == {"c1", "c2"}          \* browsers, each with its own session cookie
Browser == "c1"                  \* the browser of the sequential specification

Dates == 1..MaxDate
NoDate == 0                      \* empty expense_date / absent query argument

Empty == << >>                   \* an empty form field (text is a sequence of characters)

\* registration forms: name, e-mail as typed, password
RegForms ==
  { [name |-> "Ann", email |-> "a@x",  password |-> "annpw1"],
    [name |-> "Bob", email |-> "b@x",  password |-> "bobpw2"],
    [name |-> "Eve", email |-> " A@X", password |-> "bobpw2"],
    [name |-> "Sam", email |-> "s@x",  password |-> "abc"],
    [name |-> "",    email |-> "n@x",  password |-> "nonepw"] }

LoginForms ==
  [email : {"a@x", " A@X", "b@x", "s@x", ""}, password : {"annpw1", "bobpw2"}]

\* request.form.get('email', '').strip().lower() on the e-mails above
StripLower(email) ==
  CASE email = " A@X" -> "a@x"
    [] OTHER -> email

\* len(password) on the passwords above
PasswordLen(password) ==
  CASE password = "abc" -> 3
    [] password = "" -> 0
    [] OTHER -> 6

Salts == {"s1", "s2"}            \* salts generate_password_hash may draw
Salt1 == {"s1"}                  \* the salt drawn in the sequential specification

\* werkzeug generate_password_hash / check_password_hash: the digest is a
\* function of salt and password and differs for different passwords
generate_password_hash(password, salt) ==
  [salt |-> salt, digest |-> <<salt, password>>]

check_password_hash(pwhash, password) ==
  pwhash.digest = <<pwhash.salt, password>>

Lunch == <<"L", "u", "n", "c", "h">>
Team == <<"t", "e", "a", "m">>
Amount1250 == <<"1", "2", ".", "5", "0">>
AmountMinus3 == <<"-", "3">>

ExpenseForm(title, amount, category_id, expense_date) ==
  [title |-> title, amount |-> amount, category_id |-> category_id,
   expense_date |-> expense_date, description |-> Team]

\* forms that pass the route's checks and name an existing category
ValidExpenseForms ==
  { ExpenseForm(Lunch, Amount1250, <<"1">>, 1),
    ExpenseForm(Lunch, AmountMinus3, <<"1">>, MaxDate),
    ExpenseForm(Lunch, Amount1250, <<"2">>, MaxDate) }

\* forms with a missing field, a non-numeric field or an unknown category
InvalidExpenseForms ==
  { ExpenseForm(Lunch, Empty, <<"1">>, 1),
    ExpenseForm(Lunch, <<"a", "b", "c">>, <<"1">>, 1),
    ExpenseForm(Lunch, Amount1250, <<"x">>, 1),
    ExpenseForm(Lunch, Amount1250, <<"9">>, 1),
    ExpenseForm(Lunch, Amount1250, <<"1">>, NoDate) }

ExpenseForms == ValidExpenseForms \cup InvalidExpenseForms

AmountTexts == {form.amount : form \in ExpenseForms}

\* Python int(text) on a form field: digits only here
PyInt(text) ==
  LET p == ParseAt(text, 1, 0, 0, TRUE, 0)
  IN  [ok |-> p.ok, val |-> p.num]

\* float(amount) of every amount text, computed once
FloatOfText == [t \in AmountTexts |-> PyFloat(t)]

\* the floats the route posts for the valid amount texts
PostedFloats == {FloatOfText[t].val : t \in {a \in AmountTexts : FloatOfText[a].ok}}

\* the DECIMAL(10,2) value stored for every float a form can post, computed
\* once
DecimalOfFloat == [f \in PostedFloats |-> DecimalColumn(f)]

RECURSIVE SumsOf(_)
\* the totals that at most k stored amounts can add up to
SumsOf(k) ==
  IF k = 0 THEN {0}
  ELSE { t + DecimalOfFloat[f] : t \in SumsOf(k - 1), f \in PostedFloats }
         \cup SumsOf(k - 1)

\* safe_float of every DECIMAL total the rows can add up to, computed once
FloatOfCents == [n \in SumsOf(MaxExpenseId) |-> safe_float(n)]

\* ------------------------------------------------------------------------
\* Schema (init_db.py) and table structure detection
\* ------------------------------------------------------------------------

\* default categories inserted by create_tables, ids by AUTO_INCREMENT
default_categories ==
  << <<"Food & Dining", "Restaurants, groceries, and food-related expenses">>,
     <<"Transportation", "Gas, public transport, car maintenance">>,
     <<"Utilities", "Electricity, water, internet, phone bills">>,
     <<"Entertainment", "Movies, games, hobbies, and leisure activities">>,
     <<"Healthcare", "Medical bills, medicines, doctor visits">>,
     <<"Shopping", "Clothes, electronics, and other purchases">>,
     <<"Education", "Books, courses, and learning materials">>,
     <<"Other", "Miscellaneous expenses">> >>

\* the rows of table categories once create_tables has run
create_tables_categories ==
  { [id |-> i, name |-> default_categories[i][1], description |-> default_categories[i][2]] :
      i \in 1..Len(default_categories) }

\* columns of the expenses table: those of create_tables and the user_id
\* column every statement of ExpenseModel uses
expenses_columns ==
  << "id", "user_id", "title", "amount", "category_id", "description",
     "expense_date", "created_at" >>

users_columns == << "id", "username", "email", "password" >>

InCols(col, cols) == \E i \in 1..Len(cols) : cols[i] = col

_detect_date_column(available_columns) ==
  LET date_columns == << "expense_date", "date", "created_at", "date_created",
                         "transaction_date" >>
      hits == { i \in 1..Len(date_columns) : InCols(date_columns[i], available_columns) }
  IN  IF hits # {}
      THEN date_columns[CHOOSE i \in hits : \A j \in hits : i <= j]
      ELSE IF available_columns # << >> THEN available_columns[1] ELSE "date"

\* the expenses table of create_tables
create_tables_expenses ==
  << "id", "title", "amount", "category_id", "description", "expense_date", "created_at" >>

\* the expenses tables of the model: the one the statements of ExpenseModel
\* are written for, the one create_tables makes, one without a title column,
\* and none
ExpensesTables ==
  { expenses_columns, create_tables_expenses,
    << "id", "user_id", "category_id", "amount", "description", "date", "created_at" >>,
    << >> }

\* the structure _get_table_structure returns from its except clause
_get_table_structure_except ==
  [ all_columns     |-> << "id", "user_id", "category_id", "amount", "description",
                           "date", "created_at" >>,
    has_title       |-> FALSE,
    has_name        |-> FALSE,
    has_description |-> TRUE,
    has_user_id     |-> TRUE,
    date_column     |-> "date" ]

\* what _get_table_structure makes of each table, computed once; DESCRIBE
\* raises when the table is missing
StructureOf ==
  [ available_columns \in ExpensesTables |->
      IF available_columns = << >> THEN _get_table_structure_except
      ELSE [ all_columns     |-> available_columns,
             has_title       |-> InCols("title", available_columns),
             has_name        |-> InCols("name", available_columns),
             has_description |-> InCols("description", available_columns),
             has_user_id     |-> InCols("user_id", available_columns),
             date_column     |-> _detect_date_column(available_columns) ] ]

\* ------------------------------------------------------------------------
\* State
\* ------------------------------------------------------------------------

VARIABLES
  users,            \* rows of table users
  expenses,         \* rows of table expenses
  next_user_id,     \* AUTO_INCREMENT counter of users
  next_expense_id,  \* AUTO_INCREMENT counter of expenses
  session,          \* per browser: the Flask session
  reg,              \* per browser: a /register request between its SELECT and INSERT
  last,             \* the response to the latest request
  creator,          \* history: for each stored expense, the session user who added it
  amt,              \* one amount on its way form -> storage -> page
  categories,       \* rows of table categories
  next_category_id, \* AUTO_INCREMENT counter of categories
  _table_columns,   \* expense_model._table_columns: empty (None) or the cached structure
  called,           \* the data-access methods the latest request called
  printed,          \* the credentials the latest request wrote to standard output
  conns,            \* number of open database connections
  call,             \* a request handled step by step while the database may fail
  schema            \* the columns of the tables users and expenses; none for a missing table

vars == <<users, expenses, next_user_id, next_expense_id, session, reg, last, creator, amt,
          categories, next_category_id, _table_columns, called, printed, conns, call,
          schema>>

\* DESCRIBE expenses and what _get_table_structure makes of it
_get_table_structure == StructureOf[schema.expenses]

NoUser == 0
EmptySession == [user_id |-> NoUser, user_name |-> "", user_email |-> ""]
LoggedIn(sess) == sess.user_id # NoUser        \* 'user_id' in session

Idle == [pc |-> "idle"]
AmtIdle == [stage |-> "idle"]

\* a response: the route, its URL argument (0 when it has none), whether the
\* request did what it asks for, the page shown or redirected to, and the
\* messages flashed while handling it
Response(c, op, arg, ok, page, flashes) ==
  [client |-> c, op |-> op, arg |-> arg, ok |-> ok, page |-> page, flashes |-> flashes]

\* nothing that carries a credential was printed
NoOutput == [passwords |-> {}, hashes |-> {}]

\* the ExpenseModel methods that start with self._get_table_structure()
StructureReaders ==
  { "add_expense", "get_all_expenses", "get_expense_by_id", "update_expense",
    "get_expenses_by_date_range", "get_total_expense" }

\* what a request leaves in the process besides its response: the
\* data-access methods it called, what they printed, and the table structure
\* that the first of them to read it caches on the shared expense_model
Handled(methods, output) ==
  /\ called' = methods
  /\ printed' = output
  /\ _table_columns' = IF methods \cap StructureReaders # {} /\ _table_columns = {}
                        THEN {_get_table_structure}
                        ELSE _table_columns

\* the application started on a database with the given tables
InitOn(tables) ==
  /\ users = {}
  /\ expenses = {}
  /\ next_user_id = 1
  /\ next_expense_id = 1
  /\ session = [c \in Clients |-> EmptySession]
  /\ reg = [c \in Clients |-> Idle]
  /\ last = Response("none", "none", 0, TRUE, "", << >>)
  /\ creator = << >>
  /\ amt = AmtIdle
  /\ categories = create_tables_categories
  /\ next_category_id = Len(default_categories) + 1
  /\ _table_columns = {}
  /\ called = {}
  /\ printed = NoOutput
  /\ conns = 0
  /\ call = Idle
  /\ schema = tables

\* the database the statements of the data-access layer are written for
Init == InitOn([users |-> users_columns, expenses |-> expenses_columns])

\* ------------------------------------------------------------------------
\* UserModel
\* ------------------------------------------------------------------------

\* the existence check skipped
CountByEmail_skipped(email) == 0

\* SELECT COUNT(*) as count FROM users WHERE email = %s
CountByEmail(email) == Cardinality({u \in users : u.email = email})

\* the INSERT of register_user for the columns the users table has
NewUserRow(id, name, email, hashed_password) ==
  IF InCols("username", schema.users) \/ InCols("name", schema.users)
  THEN [id |-> id, username |-> name, email |-> email, password |-> hashed_password]
  ELSE [id |-> id, username |-> "", email |-> email, password |-> hashed_password]

\* get_user_by_email: SELECT * FROM users WHERE email = %s, fetchone();
\* the set of rows the statement may return first
get_user_by_email(email) == {u \in users : u.email = email}

\* validate_login with the check_password_hash test left out
validate_login_any_password(email, password) == get_user_by_email(email)

\* validate_login: the users it may return; empty when it returns None
validate_login(email, password) ==
  {u \in get_user_by_email(email) : check_password_hash(u.password, password)}

\* the DEBUG lines of validate_login and get_user_by_email: the password as
\* entered, and the row found with its stored hash; one outcome per row the
\* SELECT may return first
validate_login_prints(email, password) ==
  IF get_user_by_email(email) = {}
  THEN { [passwords |-> {password}, hashes |-> {}] }
  ELSE { [passwords |-> {password}, hashes |-> {u.password}] :
           u \in get_user_by_email(email) }

\* the message of /register when DESCRIBE users raises in register_user:
\* flash(f'Error: {str(e)}') for the error 1146 of MySQL
NoUsersTable == "Error: (1146, Table 'expense_tracker.users' doesn't exist)"

\* the route's checks with the password length left out
RegisterInvalid_any_length(form) ==
  IF form.name = "" \/ StripLower(form.email) = "" \/ form.password = ""
  THEN "All fields are required!"
  ELSE ""

\* the route's checks before register_user is called
RegisterInvalid(form) ==
  IF form.name = "" \/ StripLower(form.email) = "" \/ form.password = ""
  THEN "All fields are required!"
  ELSE IF PasswordLen(form.password) < 6
       THEN "Password must be at least 6 characters long!"
       ELSE ""

\* ------------------------------------------------------------------------
\* Routes: register, login, logout
\* ------------------------------------------------------------------------

\* POST /register that overwrites the row of a registered e-mail
Register_replaces_user(c, form, salt) ==
  /\ reg[c] = Idle
  /\ UNCHANGED <<expenses, next_expense_id, session, reg, creator, amt, schema, categories, next_category_id, conns, call>>
  /\ IF LoggedIn(session[c])
     THEN /\ last' = Response(c, "register", 0, FALSE, "index", << >>)
          /\ UNCHANGED <<users, next_user_id>>
          /\ Handled({}, NoOutput)
     ELSE IF RegisterInvalid(form) # ""
     THEN /\ last' = Response(c, "register", 0, FALSE, "register", <<RegisterInvalid(form)>>)
          /\ UNCHANGED <<users, next_user_id>>
          /\ Handled({}, NoOutput)
     ELSE IF schema.users = << >>
     THEN /\ last' = Response(c, "register", 0, FALSE, "register", <<NoUsersTable>>)
          /\ UNCHANGED <<users, next_user_id>>
          /\ Handled({"register_user"}, NoOutput)
     ELSE IF CountByEmail(StripLower(form.email)) > 0
     THEN /\ last' = Response(c, "register", 0, TRUE, "login", <<"Registration successful! Please log in.">>)
          /\ users' = { IF u.email = StripLower(form.email)
                        THEN NewUserRow(u.id, form.name, u.email,
                                        generate_password_hash(form.password, salt))
                        ELSE u : u \in users }
          /\ UNCHANGED next_user_id
          /\ Handled({"register_user"}, NoOutput)
     ELSE /\ next_user_id <= MaxUserId
          /\ Handled({"register_user"}, NoOutput)
          /\ users' = users \cup
               { NewUserRow(next_user_id, form.name, StripLower(form.email),
                            generate_password_hash(form.password, salt)) }
          /\ next_user_id' = next_user_id + 1
          /\ last' = Response(c, "register", 0, TRUE, "login", <<"Registration successful! Please log in.">>)

\* POST /register handled without another request in between
Register(c, form, salt) ==
  /\ reg[c] = Idle
  /\ UNCHANGED <<expenses, next_expense_id, session, reg, creator, amt, schema, categories, next_category_id, conns, call>>
  /\ IF LoggedIn(session[c])
     THEN /\ last' = Response(c, "register", 0, FALSE, "index", << >>)
          /\ UNCHANGED <<users, next_user_id>>
          /\ Handled({}, NoOutput)
     ELSE IF RegisterInvalid(form) # ""
     THEN /\ last' = Response(c, "register", 0, FALSE, "register", <<RegisterInvalid(form)>>)
          /\ UNCHANGED <<users, next_user_id>>
          /\ Handled({}, NoOutput)
     ELSE IF schema.users = << >>
     THEN /\ last' = Response(c, "register", 0, FALSE, "register", <<NoUsersTable>>)
          /\ UNCHANGED <<users, next_user_id>>
          /\ Handled({"register_user"}, NoOutput)
     ELSE IF CountByEmail(StripLower(form.email)) > 0
     THEN /\ last' = Response(c, "register", 0, FALSE, "register", <<"Error: User with email already exists!">>)
          /\ UNCHANGED <<users, next_user_id>>
          /\ Handled({"register_user"}, NoOutput)
     ELSE /\ next_user_id <= MaxUserId
          /\ Handled({"register_user"}, NoOutput)
          /\ users' = users \cup
               { NewUserRow(next_user_id, form.name, StripLower(form.email),
                            generate_password_hash(form.password, salt)) }
          /\ next_user_id' = next_user_id + 1
          /\ last' = Response(c, "register", 0, TRUE, "login", <<"Registration successful! Please log in.">>)

\* POST /login with a failure message that tells an unknown e-mail from a
\* wrong password
Login_names_the_field(c, form) ==
  /\ reg[c] = Idle
  /\ UNCHANGED <<users, expenses, next_user_id, next_expense_id, reg, creator, amt, schema, categories, next_category_id, conns, call>>
  /\ IF LoggedIn(session[c])
     THEN /\ last' = Response(c, "login", 0, FALSE, "index", << >>)
          /\ UNCHANGED session
          /\ Handled({}, NoOutput)
     ELSE IF StripLower(form.email) = "" \/ form.password = ""
     THEN /\ last' = Response(c, "login", 0, FALSE, "login", <<"Email and password are required!">>)
          /\ UNCHANGED session
          /\ Handled({}, NoOutput)
     ELSE IF validate_login(StripLower(form.email), form.password) = {}
     THEN /\ last' = Response(c, "login", 0, FALSE, "login",
                         IF get_user_by_email(StripLower(form.email)) = {}
                         THEN <<"No account with this email!">>
                         ELSE <<"Wrong password!">>)
          /\ UNCHANGED session
          /\ \E found \in validate_login_prints(StripLower(form.email), form.password) :
                Handled({"validate_login"}, found)
     ELSE \E user \in validate_login(StripLower(form.email), form.password) :
            /\ Handled({"validate_login"},
                        [passwords |-> {form.password}, hashes |-> {user.password}])
            /\ session' = [session EXCEPT ![c] =
                 [ user_id    |-> user.id,
                   user_name  |-> IF user.username # "" THEN user.username ELSE user.email,
                   user_email |-> user.email ]]
            /\ last' = Response(c, "login", 0, TRUE, "index",
                 << "Welcome back, "
                      \o (IF user.username # "" THEN user.username ELSE user.email)
                      \o "!" >>)

\* POST /login without the redirect of a session that holds a user
Login_over_session(c, form) ==
  /\ reg[c] = Idle
  /\ UNCHANGED <<users, expenses, next_user_id, next_expense_id, reg, creator, amt, schema, categories, next_category_id, conns, call>>
  /\ IF StripLower(form.email) = "" \/ form.password = ""
     THEN /\ last' = Response(c, "login", 0, FALSE, "login", <<"Email and password are required!">>)
          /\ UNCHANGED session
          /\ Handled({}, NoOutput)
     ELSE IF validate_login(StripLower(form.email), form.password) = {}
     THEN /\ last' = Response(c, "login", 0, FALSE, "login", <<"Invalid email or password!">>)
          /\ UNCHANGED session
          /\ \E found \in validate_login_prints(StripLower(form.email), form.password) :
                Handled({"validate_login"}, found)
     ELSE \E user \in validate_login(StripLower(form.email), form.password) :
            /\ Handled({"validate_login"},
                        [passwords |-> {form.password}, hashes |-> {user.password}])
            /\ session' = [session EXCEPT ![c] =
                 [ user_id    |-> user.id,
                   user_name  |-> IF user.username # "" THEN user.username ELSE user.email,
                   user_email |-> user.email ]]
            /\ last' = Response(c, "login", 0, TRUE, "index",
                 << "Welcome back, "
                      \o (IF user.username # "" THEN user.username ELSE user.email)
                      \o "!" >>)

\* POST /login
Login(c, form) ==
  /\ reg[c] = Idle
  /\ UNCHANGED <<users, expenses, next_user_id, next_expense_id, reg, creator, amt, schema, categories, next_category_id, conns, call>>
  /\ IF LoggedIn(session[c])
     THEN /\ last' = Response(c, "login", 0, FALSE, "index", << >>)
          /\ UNCHANGED session
          /\ Handled({}, NoOutput)
     ELSE IF StripLower(form.email) = "" \/ form.password = ""
     THEN /\ last' = Response(c, "login", 0, FALSE, "login", <<"Email and password are required!">>)
          /\ UNCHANGED session
          /\ Handled({}, NoOutput)
     ELSE IF validate_login(StripLower(form.email), form.password) = {}
     THEN /\ last' = Response(c, "login", 0, FALSE, "login", <<"Invalid email or password!">>)
          /\ UNCHANGED session
          /\ \E found \in validate_login_prints(StripLower(form.email), form.password) :
                Handled({"validate_login"}, found)
     ELSE \E user \in validate_login(StripLower(form.email), form.password) :
            /\ Handled({"validate_login"},
                        [passwords |-> {form.password}, hashes |-> {user.password}])
            /\ session' = [session EXCEPT ![c] =
                 [ user_id    |-> user.id,
                   user_name  |-> IF user.username # "" THEN user.username ELSE user.email,
                   user_email |-> user.email ]]
            /\ last' = Response(c, "login", 0, TRUE, "index",
                 << "Welcome back, "
                      \o (IF user.username # "" THEN user.username ELSE user.email)
                      \o "!" >>)

\* /logout with the session.clear() of the POST left out
Logout_session_kept(c, method) ==
  /\ reg[c] = Idle
  /\ UNCHANGED <<users, expenses, next_user_id, next_expense_id, reg, creator, amt, schema, categories, next_category_id, conns, call>>
  /\ UNCHANGED session
  /\ Handled({}, NoOutput)
  /\ last' = IF method = "GET"
             THEN Response(c, "logout_get", 0, FALSE, "logout", << >>)
             ELSE Response(c, "logout_post", 0, TRUE, "login", << >>)

\* /logout: GET shows the confirmation page, POST clears the session
Logout(c, method) ==
  /\ reg[c] = Idle
  /\ UNCHANGED <<users, expenses, next_user_id, next_expense_id, reg, creator, amt, schema, categories, next_category_id, conns, call>>
  /\ Handled({}, NoOutput)
  /\ IF method = "GET"
     THEN /\ UNCHANGED session
          /\ last' = IF LoggedIn(session[c])
                     THEN Response(c, "logout_get", 0, FALSE, "logout", << >>)
                     ELSE Response(c, "logout_get", 0, FALSE, "login", << >>)
     ELSE /\ session' = [session EXCEPT ![c] = EmptySession]
          /\ last' = Response(c, "logout_post", 0, TRUE, "login",
               << "Goodbye "
                    \o (IF LoggedIn(session[c]) THEN session[c].user_name ELSE "User")
                    \o "! You have been logged out successfully." >>)

\* login_required: the response when the session has no user_id
LoginGate(c, op, arg) ==
  Response(c, op, arg, FALSE, "login", <<"Please log in to access this page.">>)

\* ------------------------------------------------------------------------
\* ExpenseModel
\* ------------------------------------------------------------------------

NULL == << >>

_get_current_user_id(sess) == sess.user_id       \* session.get('user_id', None)

CategoryExists(category_id) == \E cat \in categories : cat.id = category_id

\* title: description, or the title alone when there is no description
FullDescription(title, description) ==
  IF description # Empty THEN title \o <<":", " ">> \o description ELSE title

\* the columns the INSERT / UPDATE of add_expense and update_expense set,
\* for the structure of the table
WrittenColumns(structure, title, amount, category_id, description, expense_date) ==
  [title        |-> IF structure.has_title /\ structure.has_description
                    THEN title ELSE NULL,
   category_id  |-> category_id,
   amount       |-> DecimalOfFloat[amount],
   description  |-> IF structure.has_title /\ structure.has_description
                    THEN description
                    ELSE IF structure.has_description
                         THEN FullDescription(title, description)
                         ELSE NULL,
   expense_date |-> expense_date]

\* the row written with a fixed user id instead of the session's
ExpenseRow_first_user(id, user_id, w) ==
  [id |-> id, user_id |-> 1, title |-> w.title, category_id |-> w.category_id,
   amount |-> w.amount, description |-> w.description, expense_date |-> w.expense_date]

ExpenseRow(id, user_id, w) ==
  [id |-> id, user_id |-> user_id, title |-> w.title, category_id |-> w.category_id,
   amount |-> w.amount, description |-> w.description, expense_date |-> w.expense_date]

\* add_expense: the table after the call and the value returned (0 for
\* None); the INSERT names user_id and raises on a table without that column
add_expense(sess, title, amount, category_id, description, expense_date) ==
  LET current_user_id == _get_current_user_id(sess)
      w == WrittenColumns(_get_table_structure, title, amount, category_id,
                          description, expense_date)
  IN  IF current_user_id = NoUser THEN [rows |-> expenses, id |-> 0]
      ELSE IF ~InCols("user_id", schema.expenses) THEN [rows |-> expenses, id |-> 0]
      ELSE IF ~CategoryExists(category_id) THEN [rows |-> expenses, id |-> 0]
      ELSE [rows |-> expenses \cup {ExpenseRow(next_expense_id, current_user_id, w)},
            id   |-> next_expense_id]

\* WHERE id = %s alone
OwnRows_any_user(expense_id, current_user_id) ==
  {e \in expenses : e.id = expense_id}

\* WHERE id = %s AND user_id = %s
OwnRows(expense_id, current_user_id) ==
  {e \in expenses : e.id = expense_id /\ e.user_id = current_user_id}

UpdatedRow(e, w) ==
  [e EXCEPT !.title = w.title, !.category_id = w.category_id, !.amount = w.amount,
            !.description = w.description, !.expense_date = w.expense_date]

\* the UPDATE of update_expense setting the columns w: the table after it
\* and cursor.rowcount > 0, rowcount counting the rows whose values changed
UpdateWhere(expense_id, current_user_id, w) ==
  LET hit     == OwnRows(expense_id, current_user_id)
      changed == {e \in hit : UpdatedRow(e, w) # e}
  IN  IF changed # {} /\ ~CategoryExists(w.category_id)
      THEN [rows |-> expenses, ok |-> FALSE]
      ELSE [rows |-> (expenses \ changed) \cup {UpdatedRow(e, w) : e \in changed},
            ok   |-> Cardinality(changed) > 0]

\* update_expense: the table after the call and the value returned
update_expense(sess, expense_id, title, amount, category_id, description, expense_date) ==
  IF _get_current_user_id(sess) = NoUser THEN [rows |-> expenses, ok |-> FALSE]
  ELSE UpdateWhere(expense_id, _get_current_user_id(sess),
                   WrittenColumns(_get_table_structure, title, amount, category_id,
                                  description, expense_date))

\* delete_expense with WHERE user_id = %s alone
delete_expense_all_of_user(sess, expense_id) ==
  LET current_user_id == _get_current_user_id(sess)
      hit == {e \in expenses : e.user_id = current_user_id}
  IN  IF current_user_id = NoUser THEN [rows |-> expenses, ok |-> FALSE]
      ELSE [rows |-> expenses \ hit, ok |-> Cardinality(hit) > 0]

\* delete_expense: the table after the call and rowcount > 0
delete_expense(sess, expense_id) ==
  LET current_user_id == _get_current_user_id(sess)
      hit == OwnRows(expense_id, current_user_id)
  IN  IF current_user_id = NoUser THEN [rows |-> expenses, ok |-> FALSE]
      ELSE [rows |-> expenses \ hit, ok |-> Cardinality(hit) > 0]

\* LEFT JOIN categories c ON e.category_id = c.id
CategoryName(category_id) ==
  IF CategoryExists(category_id)
  THEN (CHOOSE cat \in categories : cat.id = category_id).name
  ELSE "None"

Strip(text) ==
  IF \A i \in 1..Len(text) : text[i] = " " THEN Empty
  ELSE LET lo == CHOOSE i \in 1..Len(text) :
                   text[i] # " " /\ \A j \in 1..(i - 1) : text[j] = " "
           hi == CHOOSE i \in 1..Len(text) :
                   text[i] # " " /\ \A j \in (i + 1)..Len(text) : text[j] = " "
       IN  SubSeq(text, lo, hi)

HasColon(text) == \E i \in 1..Len(text) : text[i] = ":"
FirstColon(text) ==
  CHOOSE i \in 1..Len(text) : text[i] = ":" /\ \A j \in 1..(i - 1) : text[j] # ":"

TitleCut == 30

\* the title and description of a fetched row as the read methods return
\* them; listing is TRUE for get_all_expenses and get_expenses_by_date_range,
\* which shorten a long description used as title
TitleAndDescription(structure, e, listing) ==
  IF structure.has_title THEN [title |-> e.title, description |-> e.description]
  ELSE IF structure.has_description /\ e.description # NULL /\ e.description # Empty
       THEN IF HasColon(e.description)
            THEN [title |-> Strip(SubSeq(e.description, 1, FirstColon(e.description) - 1)),
                  description |-> Strip(SubSeq(e.description, FirstColon(e.description) + 1,
                                               Len(e.description)))]
            ELSE [title |-> IF listing /\ Len(e.description) > TitleCut
                            THEN SubSeq(e.description, 1, TitleCut) \o <<".", ".", ".">>
                            ELSE e.description,
                  description |-> e.description]
       ELSE [title |-> CategoryName(e.category_id), description |-> Empty]

\* the dict a read method returns for a row: amount through safe_float
ExpenseDict(e, listing) ==
  LET td == TitleAndDescription(_get_table_structure, e, listing)
  IN  [id |-> e.id, amount |-> FloatOfCents[e.amount], expense_date |-> e.expense_date,
       title |-> td.title, description |-> td.description,
       category_name |-> CategoryName(e.category_id), category_id |-> e.category_id]

RECURSIVE AnyOrders(_)
\* the rows in every order: a SELECT without ORDER BY
AnyOrders(rows) ==
  IF rows = {} THEN { << >> }
  ELSE UNION { { <<e>> \o rest : rest \in AnyOrders(rows \ {e}) } : e \in rows }

RECURSIVE DateDescOrders(_)
\* ORDER BY date DESC: every order of the rows with non-increasing dates
DateDescOrders(rows) ==
  IF rows = {} THEN { << >> }
  ELSE UNION { { <<e>> \o rest : rest \in DateDescOrders(rows \ {e}) } :
               e \in {x \in rows : \A y \in rows : y.expense_date <= x.expense_date} }

Truncate(seq, limit) ==
  IF limit > 0 /\ Len(seq) > limit THEN SubSeq(seq, 1, limit) ELSE seq

\* get_all_expenses with the WHERE e.user_id = %s left out
get_all_expenses_unscoped(sess, limit) ==
  LET current_user_id == _get_current_user_id(sess)
  IN  IF current_user_id = NoUser THEN { << >> }
      ELSE { [i \in 1..Len(Truncate(o, limit)) |-> ExpenseDict(o[i], TRUE)] :
               o \in DateDescOrders(expenses) }

\* get_all_expenses(limit): the lists it may return (limit 0 for None)
get_all_expenses(sess, limit) ==
  LET current_user_id == _get_current_user_id(sess)
      rows == {e \in expenses : e.user_id = current_user_id}
  IN  IF current_user_id = NoUser THEN { << >> }
      ELSE { [i \in 1..Len(Truncate(o, limit)) |-> ExpenseDict(o[i], TRUE)] :
               o \in DateDescOrders(rows) }

\* get_expense_by_id: the dicts it may return; empty when it returns None
get_expense_by_id(sess, expense_id) ==
  LET current_user_id == _get_current_user_id(sess)
  IN  IF current_user_id = NoUser THEN {}
      ELSE { ExpenseDict(e, FALSE) : e \in OwnRows(expense_id, current_user_id) }

\* WHERE date BETWEEN %s AND %s AND e.user_id = %s
get_expenses_by_date_range(sess, start_date, end_date) ==
  LET current_user_id == _get_current_user_id(sess)
      rows == {e \in expenses : /\ e.user_id = current_user_id
                                /\ start_date <= e.expense_date
                                /\ e.expense_date <= end_date}
  IN  IF current_user_id = NoUser THEN { << >> }
      ELSE { [i \in 1..Len(o) |-> ExpenseDict(o[i], TRUE)] : o \in DateDescOrders(rows) }

RECURSIVE SumAmount(_)
\* SUM(amount) over rows, exact in DECIMAL
SumAmount(rows) ==
  IF rows = {} THEN 0
  ELSE LET e == CHOOSE x \in rows : TRUE IN e.amount + SumAmount(rows \ {e})

\* the date filter written with an exclusive upper bound
TotalRows_exclusive_end(current_user_id, start_date, end_date) ==
  IF start_date # NoDate /\ end_date # NoDate
  THEN {e \in expenses : /\ e.user_id = current_user_id
                         /\ start_date <= e.expense_date
                         /\ e.expense_date < end_date}
  ELSE {e \in expenses : e.user_id = current_user_id}

\* the date filter applied as soon as one bound is given
TotalRows_either_bound(current_user_id, start_date, end_date) ==
  IF start_date # NoDate \/ end_date # NoDate
  THEN {e \in expenses : /\ e.user_id = current_user_id
                         /\ start_date <= e.expense_date
                         /\ e.expense_date <= end_date}
  ELSE {e \in expenses : e.user_id = current_user_id}

\* the rows get_total_expense sums: the date filter applies only when both
\* bounds are given
TotalRows(current_user_id, start_date, end_date) ==
  IF start_date # NoDate /\ end_date # NoDate
  THEN {e \in expenses : /\ e.user_id = current_user_id
                         /\ start_date <= e.expense_date
                         /\ e.expense_date <= end_date}
  ELSE {e \in expenses : e.user_id = current_user_id}

\* SELECT COALESCE(SUM(amount), 0) as total ... of get_total_expense
TotalDecimal(current_user_id, start_date, end_date) ==
  SumAmount(TotalRows(current_user_id, start_date, end_date))

\* get_total_expense(start_date, end_date), a float
get_total_expense(sess, start_date, end_date) ==
  LET current_user_id == _get_current_user_id(sess)
      total == TotalDecimal(current_user_id, start_date, end_date)
  IN  IF current_user_id = NoUser THEN FloatOfCents[0]
      ELSE IF total # 0 THEN FloatOfCents[total] ELSE FloatOfCents[0]

\* the rows of the GROUP BY of get_expenses_by_category: one per category
\* whose total is positive (categories LEFT JOIN the user's expenses,
\* HAVING total_amount > 0), totals exact in DECIMAL
CategoryTotals(current_user_id) ==
  LET of(cat) == {e \in expenses : e.category_id = cat.id /\ e.user_id = current_user_id}
  IN  { [category_name |-> cat.name, total_amount |-> SumAmount(of(cat)),
         count |-> Cardinality(of(cat))] :
          cat \in {k \in categories : SumAmount(of(k)) > 0} }

\* get_expenses_by_category: the totals through safe_float
get_expenses_by_category(sess) ==
  LET current_user_id == _get_current_user_id(sess)
  IN  IF current_user_id = NoUser THEN {}
      ELSE { [r EXCEPT !.total_amount = FloatOfCents[r.total_amount]] :
               r \in CategoryTotals(current_user_id) }

\* ------------------------------------------------------------------------
\* Routes: expenses
\* ------------------------------------------------------------------------

ExpenseIds == 1..MaxExpenseId

\* the first and last day of the current month, date.today() being any day
Months == {m \in Dates \X Dates : m[1] <= m[2]}

\* not all([title, amount, category_id, expense_date])
ExpenseFormIncomplete(form) ==
  \/ form.title = Empty
  \/ form.amount = Empty
  \/ form.category_id = Empty
  \/ form.expense_date = NoDate

\* float(amount) or int(category_id) raises ValueError
ExpenseFormValueError(form) ==
  ~FloatOfText[form.amount].ok \/ ~PyInt(form.category_id).ok

\* the end of the add_expense route, given what the model method returned
AddExpenseAnswer(c, result) ==
  IF result.id # 0
  THEN /\ next_expense_id <= MaxExpenseId
       /\ expenses' = result.rows
       /\ next_expense_id' = next_expense_id + 1
       /\ creator' = [id \in DOMAIN creator \cup {result.id} |->
                        IF id = result.id THEN session[c].user_id ELSE creator[id]]
       /\ last' = Response(c, "add_expense", 0, TRUE, "index",
                           <<"Expense added successfully!">>)
       /\ Handled({"add_expense"}, NoOutput)
  ELSE /\ last' = Response(c, "add_expense", 0, FALSE, "add_expense",
                           <<"Error adding expense. Please try again.">>)
       /\ UNCHANGED <<expenses, next_expense_id, creator>>
       /\ Handled({"add_expense", "get_all_categories"}, NoOutput)

\* POST /add_expense
AddExpense(c, form) ==
  /\ reg[c] = Idle
  /\ UNCHANGED <<users, next_user_id, session, reg, amt, schema, categories, next_category_id, conns, call>>
  /\ IF ~LoggedIn(session[c])
     THEN /\ last' = LoginGate(c, "add_expense", 0)
          /\ UNCHANGED <<expenses, next_expense_id, creator>>
          /\ Handled({}, NoOutput)
     ELSE IF ExpenseFormIncomplete(form)
     THEN /\ last' = Response(c, "add_expense", 0, FALSE, "add_expense",
                              <<"Title, amount, category, and date are required!">>)
          /\ UNCHANGED <<expenses, next_expense_id, creator>>
          /\ Handled({"get_all_categories"}, NoOutput)
     ELSE IF ExpenseFormValueError(form)
     THEN /\ last' = Response(c, "add_expense", 0, FALSE, "add_expense", <<"Invalid input">>)
          /\ UNCHANGED <<expenses, next_expense_id, creator>>
          /\ Handled({"get_all_categories"}, NoOutput)
     ELSE AddExpenseAnswer(c, add_expense(session[c], form.title,
                                          FloatOfText[form.amount].val,
                                          PyInt(form.category_id).val,
                                          form.description, form.expense_date))

\* the GET part of edit_expense, also reached after a failed POST: the
\* response after the messages flashed so far
EditPage(c, op, expense_id, flashes) ==
  IF get_expense_by_id(session[c], expense_id) = {}
  THEN Response(c, op, expense_id, FALSE, "index",
                Append(flashes, "Expense not found or access denied!"))
  ELSE Response(c, op, expense_id, FALSE, "add_expense", flashes)

\* the data-access methods the GET part calls: the category list is read
\* only for an expense that was found
EditPageCalls(c, expense_id) ==
  IF get_expense_by_id(session[c], expense_id) = {}
  THEN {"get_expense_by_id"}
  ELSE {"get_expense_by_id", "get_all_categories"}

\* GET /edit_expense/<id>
EditExpenseGet(c, expense_id) ==
  /\ reg[c] = Idle
  /\ IF ~LoggedIn(session[c]) THEN Handled({}, NoOutput)
     ELSE Handled(EditPageCalls(c, expense_id), NoOutput)
  /\ UNCHANGED <<users, expenses, next_user_id, next_expense_id, session, reg, creator, amt, schema, categories, next_category_id, conns, call>>
  /\ last' = IF ~LoggedIn(session[c]) THEN LoginGate(c, "edit_expense_get", expense_id)
             ELSE [EditPage(c, "edit_expense_get", expense_id, << >>) EXCEPT
                     !.ok = (get_expense_by_id(session[c], expense_id) # {})]

\* the end of the POST part of edit_expense, given what the model method
\* returned
EditExpenseAnswer(c, expense_id, result) ==
  /\ expenses' = result.rows
  /\ IF result.ok THEN Handled({"update_expense"}, NoOutput)
     ELSE Handled({"update_expense"} \cup EditPageCalls(c, expense_id), NoOutput)
  /\ last' = IF result.ok
             THEN Response(c, "edit_expense", expense_id, TRUE, "index",
                           <<"Expense updated successfully!">>)
             ELSE EditPage(c, "edit_expense", expense_id,
                    <<"Error updating expense. Expense not found or access denied.">>)

\* POST /edit_expense/<id>
EditExpense(c, expense_id, form) ==
  /\ reg[c] = Idle
  /\ UNCHANGED <<users, next_user_id, next_expense_id, session, reg, creator, amt, schema, categories, next_category_id, conns, call>>
  /\ IF ~LoggedIn(session[c])
     THEN /\ last' = LoginGate(c, "edit_expense", expense_id)
          /\ UNCHANGED expenses
          /\ Handled({}, NoOutput)
     ELSE IF ExpenseFormIncomplete(form)
     THEN /\ last' = Response(c, "edit_expense", expense_id, FALSE, "add_expense",
                              <<"Title, amount, category, and date are required!">>)
          /\ UNCHANGED expenses
          /\ Handled({"get_expense_by_id", "get_all_categories"}, NoOutput)
     ELSE IF ExpenseFormValueError(form)
     THEN /\ last' = EditPage(c, "edit_expense", expense_id, <<"Invalid input">>)
          /\ UNCHANGED expenses
          /\ Handled(EditPageCalls(c, expense_id), NoOutput)
     ELSE EditExpenseAnswer(c, expense_id,
            update_expense(session[c], expense_id, form.title,
                           FloatOfText[form.amount].val, PyInt(form.category_id).val,
                           form.description, form.expense_date))

\* GET /delete_expense/<id>
DeleteExpense(c, expense_id) ==
  /\ reg[c] = Idle
  /\ UNCHANGED <<users, next_user_id, next_expense_id, session, reg, amt, schema, categories, next_category_id, conns, call>>
  /\ IF ~LoggedIn(session[c])
     THEN /\ last' = LoginGate(c, "delete_expense", expense_id)
          /\ UNCHANGED <<expenses, creator>>
          /\ Handled({}, NoOutput)
     ELSE LET result == delete_expense(session[c], expense_id)
          IN  /\ Handled({"delete_expense"}, NoOutput)
              /\ expenses' = result.rows
              /\ creator' = [id \in {e.id : e \in result.rows} |-> creator[id]]
              /\ last' = IF result.ok
                         THEN Response(c, "delete_expense", expense_id, TRUE, "index",
                                       <<"Expense deleted successfully!">>)
                         ELSE Response(c, "delete_expense", expense_id, FALSE, "index",
                                       <<"Error deleting expense or expense not found!">>)

\* what the dashboard shows
IndexData(sess, month) ==
  [ recent_expenses   : get_all_expenses(sess, 10),
    total_expense     : {get_total_expense(sess, NoDate, NoDate)},
    monthly_expense   : {get_total_expense(sess, month[1], month[2])},
    category_expenses : {get_expenses_by_category(sess)} ]

\* what the reports page shows; a missing bound selects the current month
ReportsData(sess, start_date, end_date, month) ==
  LET s == IF start_date = NoDate \/ end_date = NoDate THEN month[1] ELSE start_date
      e == IF start_date = NoDate \/ end_date = NoDate THEN month[2] ELSE end_date
  IN  [ expenses          : get_expenses_by_date_range(sess, s, e),
        total_amount      : {get_total_expense(sess, s, e)},
        category_expenses : {get_expenses_by_category(sess)},
        start_date        : {s},
        end_date          : {e} ]

\* the data-access methods each reading route calls
RouteReads(op) ==
  IF op = "index"
  THEN {"get_all_expenses", "get_total_expense", "get_expenses_by_category"}
  ELSE IF op = "reports"
  THEN {"get_expenses_by_date_range", "get_total_expense", "get_expenses_by_category"}
  ELSE IF op = "api_expenses" THEN {"get_all_expenses"}
  ELSE {"get_total_expense", "get_expenses_by_category"}

\* a page or JSON document that reads only: GET /, /reports, /api/expenses,
\* /api/stats behind the login gate
ReadRoute(c, op) ==
  /\ reg[c] = Idle
  /\ IF ~LoggedIn(session[c]) THEN Handled({}, NoOutput)
     ELSE Handled(RouteReads(op), NoOutput)
  /\ UNCHANGED <<users, expenses, next_user_id, next_expense_id, session, reg, creator, amt, schema, categories, next_category_id, conns, call>>
  /\ last' = IF ~LoggedIn(session[c]) THEN LoginGate(c, op, 0)
             ELSE Response(c, op, 0, TRUE, op, << >>)

Index(c) == ReadRoute(c, "index")
Reports(c) == ReadRoute(c, "reports")
ApiExpenses(c) == ReadRoute(c, "api_expenses")
ApiStats(c) == ReadRoute(c, "api_stats")

\* ------------------------------------------------------------------------
\* Sequential specification: one browser, requests handled one at a time
\* ------------------------------------------------------------------------

Next ==
  \/ \E form \in RegForms, salt \in Salt1 : Register(Browser, form, salt)
  \/ \E form \in LoginForms : Login(Browser, form)
  \/ \E method \in {"GET", "POST"} : Logout(Browser, method)
  \/ \E form \in ExpenseForms : AddExpense(Browser, form)
  \/ \E id \in ExpenseIds : EditExpenseGet(Browser, id)
  \/ \E id \in ExpenseIds, form \in ExpenseForms : EditExpense(Browser, id, form)
  \/ \E id \in ExpenseIds : DeleteExpense(Browser, id)
  \/ Index(Browser)
  \/ Reports(Browser)
  \/ ApiExpenses(Browser)
  \/ ApiStats(Browser)

Spec == Init /\ [][Next]_vars

\* ------------------------------------------------------------------------
\* Concurrent registration: each /register request runs register_user on
\* its own connection, first the SELECT COUNT(*), later the INSERT and
\* commit; requests of other browsers run in between.  No statement of the
\* repository declares a unique key on users.email.
\* ------------------------------------------------------------------------

\* the request up to and including the existence check
RegisterCheck(c, form) ==
  /\ reg[c] = Idle
  /\ UNCHANGED <<users, expenses, next_user_id, next_expense_id, session, creator, amt, schema, categories, next_category_id, conns, call>>
  /\ IF LoggedIn(session[c])
     THEN /\ last' = Response(c, "register", 0, FALSE, "index", << >>)
          /\ UNCHANGED reg
          /\ Handled({}, NoOutput)
     ELSE IF RegisterInvalid(form) # ""
     THEN /\ last' = Response(c, "register", 0, FALSE, "register", <<RegisterInvalid(form)>>)
          /\ UNCHANGED reg
          /\ Handled({}, NoOutput)
     ELSE IF schema.users = << >>
     THEN /\ last' = Response(c, "register", 0, FALSE, "register", <<NoUsersTable>>)
          /\ UNCHANGED reg
          /\ Handled({"register_user"}, NoOutput)
     ELSE IF CountByEmail(StripLower(form.email)) > 0
     THEN /\ last' = Response(c, "register", 0, FALSE, "register", <<"Error: User with email already exists!">>)
          /\ UNCHANGED reg
          /\ Handled({"register_user"}, NoOutput)
     ELSE /\ reg' = [reg EXCEPT ![c] = [pc |-> "insert", form |-> form]]
          /\ Handled({"register_user"}, NoOutput)
          /\ last' = Response(c, "register", 0, FALSE, "pending", << >>)

\* the INSERT, the commit and the response
RegisterInsert(c, salt) ==
  /\ reg[c] # Idle
  /\ next_user_id <= MaxUserId
  /\ users' = users \cup
       { NewUserRow(next_user_id, reg[c].form.name, StripLower(reg[c].form.email),
                    generate_password_hash(reg[c].form.password, salt)) }
  /\ next_user_id' = next_user_id + 1
  /\ reg' = [reg EXCEPT ![c] = Idle]
  /\ last' = Response(c, "register", 0, TRUE, "login", <<"Registration successful! Please log in.">>)
  /\ Handled({"register_user"}, NoOutput)
  /\ UNCHANGED <<expenses, next_expense_id, session, creator, amt, schema, categories, next_category_id, conns, call>>

NextRace ==
  \/ \E c \in Clients, form \in RegForms : RegisterCheck(c, form)
  \/ \E c \in Clients, salt \in Salts : RegisterInsert(c, salt)

SpecRace == Init /\ [][NextRace]_vars

\* ------------------------------------------------------------------------
\* One amount from the form to the table and back
\* ------------------------------------------------------------------------

\* the two digits of n < 100 as characters
Digit(k) == CHOOSE ch \in DOMAIN DigitVal : DigitVal[ch] = k

RECURSIVE DigitsOf(_)
DigitsOf(n) == IF n < 10 THEN <<Digit(n)>> ELSE Append(DigitsOf(n \div 10), Digit(n % 10))

\* a two-decimal amount as typed, e.g. 1250 hundredths as "12.50"
CentsText(cents) ==
  (IF cents < 0 THEN <<"-">> ELSE << >>)
    \o LET a == IF cents < 0 THEN -cents ELSE cents
       IN  DigitsOf(a \div 100) \o <<".", Digit((a % 100) \div 10), Digit(a % 10)>>

TypedCents == (-MaxCents)..MaxCents \cup {1250, 9999999}

\* amounts already in the table that a total adds to the new one
OtherCents == {10, 20}

InitAmount ==
  /\ users = {}
  /\ expenses = {}
  /\ next_user_id = 1
  /\ next_expense_id = 1
  /\ session = [c \in Clients |-> EmptySession]
  /\ reg = [c \in Clients |-> Idle]
  /\ last = Response("none", "none", 0, TRUE, "", << >>)
  /\ creator = << >>
  /\ categories = create_tables_categories
  /\ next_category_id = Len(default_categories) + 1
  /\ _table_columns = {}
  /\ called = {}
  /\ printed = NoOutput
  /\ conns = 0
  /\ call = Idle
  /\ schema = [users |-> users_columns, expenses |-> expenses_columns]
  /\ \E cents \in TypedCents, other \in OtherCents :
       amt = [stage |-> "form", typed |-> cents, text |-> CentsText(cents),
              other |-> other, posted |-> FloatZero, stored |-> 0,
              read |-> FloatZero, total |-> FloatZero]

\* add_expense route: amount=float(amount)
PostAmount ==
  /\ amt.stage = "form"
  /\ PyFloat(amt.text).ok
  /\ amt' = [amt EXCEPT !.stage = "posted", !.posted = PyFloat(amt.text).val]
  /\ UNCHANGED <<users, expenses, next_user_id, next_expense_id, session, reg, last, creator, schema,
               categories, next_category_id, _table_columns, called, printed, conns, call>>

\* ExpenseModel.add_expense: float(amount) as the parameter of the INSERT
StoreAmount ==
  /\ amt.stage = "posted"
  /\ amt' = [amt EXCEPT !.stage = "stored", !.stored = DecimalColumn(amt.posted)]
  /\ UNCHANGED <<users, expenses, next_user_id, next_expense_id, session, reg, last, creator, schema,
               categories, next_category_id, _table_columns, called, printed, conns, call>>

\* get_expense_by_id / get_all_expenses: expense['amount'] = safe_float(...)
ReadAmount ==
  /\ amt.stage = "stored"
  /\ amt' = [amt EXCEPT !.stage = "read", !.read = safe_float(amt.stored)]
  /\ UNCHANGED <<users, expenses, next_user_id, next_expense_id, session, reg, last, creator, schema,
               categories, next_category_id, _table_columns, called, printed, conns, call>>

\* get_total_expense over this row and one stored before: safe_float(SUM)
TotalAmount ==
  /\ amt.stage = "read"
  /\ amt' = [amt EXCEPT !.stage = "total",
                        !.total = safe_float(amt.stored + amt.other)]
  /\ UNCHANGED <<users, expenses, next_user_id, next_expense_id, session, reg, last, creator, schema,
               categories, next_category_id, _table_columns, called, printed, conns, call>>

NextAmount == PostAmount \/ StoreAmount \/ ReadAmount \/ TotalAmount

SpecAmount == InitAmount /\ [][NextAmount]_vars

\* ------------------------------------------------------------------------
\* Requests while the database may fail: every data-access method opens its
\* own connection, runs its statements and leaves through its except and
\* finally clauses; one request is handled at a time.
\* ------------------------------------------------------------------------

MaxConns == 2

\* what fails while a request is handled: nothing; every get_connection()
\* (server unreachable); the statement DESCRIBE expenses; every other
\* statement
FaultKinds == {"none", "unreachable", "describe", "statement"}

FaultRoutes ==
  { "index", "api_expenses", "api_categories", "api_stats",
    "debug_expenses_table", "debug_all_tables", "create_database" }

\* routes behind login_required
GatedRoutes == {"index", "api_expenses", "api_stats", "debug_expenses_table"}

\* routes that answer with jsonify(...)
JsonRoutes ==
  {"api_expenses", "api_categories", "api_stats", "debug_expenses_table", "debug_all_tables"}

\* the connection-opening calls of each route in the order it makes them
Plan(route) ==
  CASE route = "index" ->
         << "_get_table_structure", "get_all_expenses",
            "_get_table_structure", "get_total_expense",
            "_get_table_structure", "get_total_expense_range",
            "get_expenses_by_category" >>
    [] route = "api_expenses" -> << "_get_table_structure", "get_all_expenses" >>
    [] route = "api_categories" -> << "get_all_categories" >>
    [] route = "api_stats" ->
         << "_get_table_structure", "get_total_expense",
            "_get_table_structure", "get_total_expense_range",
            "get_expenses_by_category" >>
    [] OTHER -> << route >>

\* the routes and functions that open their connection themselves: the
\* debug routes close it after the with block, init_db in a finally clause
ClosesInline == {"debug_expenses_table", "debug_all_tables"}
ClosesUnbound == {"create_database"}

\* the statements built with structure['date_column']
NamesDateColumn == {"get_all_expenses", "get_total_expense_range"}

\* whether the statement of method m raises
StatementRaises(m, fault, structure) ==
  \/ fault = "statement" /\ m # "_get_table_structure"
  \/ fault = "describe" /\ m \in {"_get_table_structure"} \cup ClosesInline
  \/ /\ m \in NamesDateColumn
     /\ \E st \in structure : ~InCols(st.date_column, schema.expenses)

\* what the route answers once its calls are over, failed being the calls
\* that raised
RouteAnswer(c, route, failed, month) ==
  CASE route = "index" ->
         [ status |-> 200, error |-> FALSE, flashes |-> << >>,
           body |-> [ recent_expenses |->
                        IF "get_all_expenses" \in failed THEN { << >> }
                        ELSE get_all_expenses(session[c], 10),
                      total_expense |->
                        IF "get_total_expense" \in failed THEN FloatZero
                        ELSE get_total_expense(session[c], NoDate, NoDate),
                      monthly_expense |->
                        IF "get_total_expense_range" \in failed THEN FloatZero
                        ELSE get_total_expense(session[c], month[1], month[2]),
                      category_expenses |->
                        IF "get_expenses_by_category" \in failed THEN {}
                        ELSE get_expenses_by_category(session[c]) ] ]
    [] route = "api_expenses" ->
         [ status |-> 200, error |-> FALSE, flashes |-> << >>,
           body |-> [ success |-> TRUE,
                      user_id |-> session[c].user_id,
                      expenses |-> IF "get_all_expenses" \in failed THEN { << >> }
                                   ELSE get_all_expenses(session[c], 0) ] ]
    [] route = "api_categories" ->
         [ status |-> 200, error |-> FALSE, flashes |-> << >>,
           body |-> IF "get_all_categories" \in failed THEN {} ELSE categories ]
    [] route = "api_stats" ->
         [ status |-> 200, error |-> FALSE, flashes |-> << >>,
           body |-> [ user_id |-> session[c].user_id,
                      total_expense |->
                        IF "get_total_expense" \in failed THEN FloatZero
                        ELSE get_total_expense(session[c], NoDate, NoDate),
                      monthly_expense |->
                        IF "get_total_expense_range" \in failed THEN FloatZero
                        ELSE get_total_expense(session[c], month[1], month[2]),
                      category_expenses |->
                        IF "get_expenses_by_category" \in failed THEN {}
                        ELSE get_expenses_by_category(session[c]) ] ]
    [] route = "debug_expenses_table" ->
         IF failed # {}
         THEN [ status |-> 500, error |-> TRUE, flashes |-> << >>, body |-> << >> ]
         ELSE [ status |-> 200, error |-> FALSE, flashes |-> << >>,
                body |-> [ available_columns |-> schema.expenses,
                           user_records |-> Cardinality({e \in expenses :
                                              e.user_id = session[c].user_id}),
                           total_records |-> Cardinality(expenses) ] ]
    [] route = "debug_all_tables" ->
         IF failed # {}
         THEN [ status |-> 500, error |-> TRUE, flashes |-> << >>, body |-> << >> ]
         ELSE [ status |-> 200, error |-> FALSE, flashes |-> << >>,
                body |-> schema ]
    [] OTHER ->
         [ status |-> 0, error |-> "UnboundLocalError" \in failed, flashes |-> << >>,
           body |-> << >> ]

\* a request arrives; login_required answers at once for a session without
\* a user
FaultBegin(c, route, fault, month) ==
  /\ reg[c] = Idle
  /\ call.pc \in {"idle", "done"}
  /\ conns < MaxConns
  /\ called' = {}
  /\ printed' = NoOutput
  /\ IF route \in GatedRoutes /\ ~LoggedIn(session[c])
     THEN /\ last' = LoginGate(c, route, 0)
          /\ call' = [ pc |-> "done", client |-> c, route |-> route, fault |-> fault,
                       month |-> month, failed |-> {}, cache |-> _table_columns,
                       answer |-> [ status |-> 302, error |-> FALSE,
                                    flashes |-> <<"Please log in to access this page.">>,
                                    body |-> << >> ] ]
     ELSE /\ UNCHANGED last
          /\ call' = [ pc |-> "next", client |-> c, route |-> route, fault |-> fault,
                       month |-> month, failed |-> {}, cache |-> _table_columns,
                       todo |-> Plan(route), opened |-> FALSE, structure |-> {} ]
  /\ UNCHANGED <<users, expenses, next_user_id, next_expense_id, session, reg, creator, amt, schema,
                 categories, next_category_id, _table_columns, conns>>

\* the next call of the route: _get_table_structure returns the cached
\* structure without a connection, every other call starts with
\* get_connection(); after the last call the route answers
FaultNext ==
  /\ call.pc = "next"
  /\ call' = IF call.todo = << >> THEN [call EXCEPT !.pc = "respond"]
             ELSE IF Head(call.todo) = "_get_table_structure" /\ _table_columns # {}
             THEN [call EXCEPT !.todo = Tail(call.todo), !.structure = _table_columns]
             ELSE [call EXCEPT !.pc = "connect"]
  /\ UNCHANGED <<users, expenses, next_user_id, next_expense_id, session, reg, last, creator,
                 amt, schema, categories, next_category_id, _table_columns, called, printed, conns>>

\* connection = self.db.get_connection(): pymysql.connect raises when the
\* server is unreachable
FaultConnect ==
  /\ call.pc = "connect"
  /\ IF call.fault = "unreachable"
     THEN /\ call' = [call EXCEPT !.pc = "leave", !.opened = FALSE,
                                  !.failed = @ \cup {Head(call.todo)}]
          /\ UNCHANGED conns
     ELSE /\ call' = [call EXCEPT !.pc = "execute", !.opened = TRUE]
          /\ conns' = conns + 1
  /\ called' = called \cup {Head(call.todo)}
  /\ UNCHANGED <<users, expenses, next_user_id, next_expense_id, session, reg, last, creator,
                 amt, schema, categories, next_category_id, _table_columns, printed>>

\* cursor.execute(...): a successful DESCRIBE expenses is cached on the
\* shared expense_model
FaultExecute ==
  /\ call.pc = "execute"
  /\ IF StatementRaises(Head(call.todo), call.fault, call.structure)
     THEN /\ call' = [call EXCEPT !.pc = "leave", !.failed = @ \cup {Head(call.todo)}]
          /\ UNCHANGED _table_columns
     ELSE IF Head(call.todo) = "_get_table_structure"
     THEN /\ call' = [call EXCEPT !.pc = "leave", !.structure = {_get_table_structure}]
          /\ _table_columns' = {_get_table_structure}
     ELSE /\ call' = [call EXCEPT !.pc = "leave"]
          /\ UNCHANGED _table_columns
  /\ UNCHANGED <<users, expenses, next_user_id, next_expense_id, session, reg, last, creator,
                 amt, schema, categories, next_category_id, called, printed, conns>>

\* the way out of the call.  A model method runs 'finally: if connection:
\* connection.close()'; _get_table_structure that raised returns its default
\* structure.  A debug route calls connection.close() after its with block
\* and skips it when a statement raised.  create_database runs 'finally:
\* connection.close()', which closes the connection if pymysql.connect
\* returned one and raises UnboundLocalError if it did not.
FaultLeave ==
  /\ call.pc = "leave"
  /\ conns' = IF call.opened /\ ~( Head(call.todo) \in ClosesInline
                                  /\ Head(call.todo) \in call.failed )
              THEN conns - 1
              ELSE conns
  /\ call' = [call EXCEPT
       !.pc = "next",
       !.opened = FALSE,
       !.todo = IF Head(call.todo) \in call.failed /\ Head(call.todo) \in ClosesInline
                THEN << >> ELSE Tail(call.todo),
       !.structure = IF Head(call.todo) = "_get_table_structure"
                        /\ Head(call.todo) \in call.failed
                     THEN {_get_table_structure_except}
                     ELSE call.structure,
       !.failed = IF Head(call.todo) \in ClosesUnbound /\ ~call.opened
                  THEN call.failed \cup {"UnboundLocalError"}
                  ELSE call.failed ]
  /\ UNCHANGED <<users, expenses, next_user_id, next_expense_id, session, reg, last, creator,
                 amt, schema, categories, next_category_id, _table_columns, called, printed>>

\* the request ends with the answer sent
Answered(answer) ==
  /\ call' = [ pc |-> "done", client |-> call.client, route |-> call.route,
               fault |-> call.fault, month |-> call.month, failed |-> call.failed,
               cache |-> call.cache, answer |-> answer ]
  /\ last' = Response(call.client, call.route, 0, answer.status \in 200..299,
                      IF call.route \in JsonRoutes THEN "json" ELSE call.route,
                      answer.flashes)

\* the route builds its answer from what its calls returned
FaultRespond ==
  /\ call.pc = "respond"
  /\ Answered(RouteAnswer(call.client, call.route, call.failed, call.month))
  /\ UNCHANGED <<users, expenses, next_user_id, next_expense_id, session, reg, creator,
                 amt, schema, categories, next_category_id, _table_columns, called, printed, conns>>

\* date.today() lies in a month that holds every date of the model
FaultMonth == <<1, MaxDate>>

\* the requests that fill the tables, handled while the database works
FaultForms == {f \in ValidExpenseForms : f.expense_date = 1}

\* no request is in the middle of its calls
Quiet == call.pc \in {"idle", "done"}

NextFault ==
  \/ \E form \in {f \in RegForms : f.name = "Ann"}, salt \in Salt1 :
       Quiet /\ Register(Browser, form, salt)
  \/ \E form \in {f \in LoginForms : f.email = "a@x"} : Quiet /\ Login(Browser, form)
  \/ \E form \in FaultForms : Quiet /\ AddExpense(Browser, form)
  \/ \E route \in FaultRoutes, fault \in FaultKinds :
       FaultBegin(Browser, route, fault, FaultMonth)
  \/ FaultNext
  \/ FaultConnect
  \/ FaultExecute
  \/ FaultLeave
  \/ FaultRespond

SpecFault == Init /\ [][NextFault]_vars

\* ------------------------------------------------------------------------
\* Categories: the list every visitor reads, the administrative insert and
\* a second run of init_db, next to the requests of one browser
\* ------------------------------------------------------------------------

MaxCategoryId == 17

\* names an administrator may insert
CategoryNames == {"Other", "other", "Travel"}

\* the names of the model in the order of ORDER BY name
NameOrder ==
  << "Education", "Entertainment", "Food & Dining", "Healthcare", "Other",
     "Shopping", "Transportation", "Travel", "Utilities" >>

\* the key under which the UNIQUE index on categories.name and ORDER BY
\* compare a name: the default collation ignores case
Collate(name) == IF name = "other" THEN "Other" ELSE name

NameTaken(name) == \E cat \in categories : Collate(cat.name) = Collate(name)

\* CategoryModel.get_all_categories: SELECT * FROM categories ORDER BY name
get_all_categories ==
  LET present == SelectSeq(NameOrder, LAMBDA n : \E cat \in categories : Collate(cat.name) = n)
  IN  [ i \in 1..Len(present) |-> CHOOSE cat \in categories : Collate(cat.name) = present[i] ]

\* a JSON answer
JsonResponse(c, op, status, body) ==
  [ client |-> c, op |-> op, arg |-> 0, ok |-> status \in 200..299, page |-> "json",
    flashes |-> << >>, body |-> body ]

\* GET /api/categories behind login_required like the other api routes
ApiCategories_login_required(c) ==
  /\ reg[c] = Idle
  /\ IF LoggedIn(session[c])
     THEN /\ last' = JsonResponse(c, "api_categories", 200, get_all_categories)
          /\ Handled({"get_all_categories"}, NoOutput)
     ELSE /\ last' = LoginGate(c, "api_categories", 0)
          /\ Handled({}, NoOutput)
  /\ UNCHANGED <<users, expenses, next_user_id, next_expense_id, session, reg, creator, amt, schema, categories, next_category_id, conns, call>>

\* GET /api/categories
ApiCategories(c) ==
  /\ reg[c] = Idle
  /\ last' = JsonResponse(c, "api_categories", 200, get_all_categories)
  /\ Handled({"get_all_categories"}, NoOutput)
  /\ UNCHANGED <<users, expenses, next_user_id, next_expense_id, session, reg, creator, amt, schema, categories, next_category_id, conns, call>>

\* add_category on a table without the UNIQUE key on name
add_category_no_unique_key(name, description) ==
  [ rows |-> categories \cup
               {[id |-> next_category_id, name |-> name, description |-> description]},
    id   |-> next_category_id ]

\* CategoryModel.add_category: the INSERT raises on a name the UNIQUE key
\* holds already and the method returns None (id 0); otherwise it returns
\* cursor.lastrowid
add_category(name, description) ==
  IF NameTaken(name)
  THEN [ rows |-> categories, id |-> 0 ]
  ELSE [ rows |-> categories \cup
                    {[id |-> next_category_id, name |-> name, description |-> description]},
         id   |-> next_category_id ]

\* an administrator calls add_category; the AUTO_INCREMENT value of a
\* rejected INSERT is not given out again
AddCategory(name, description) ==
  /\ Quiet
  /\ next_category_id <= MaxCategoryId
  /\ categories' = add_category(name, description).rows
  /\ next_category_id' = next_category_id + 1
  /\ last' = [ client |-> "admin", op |-> "add_category", arg |-> 0,
               ok |-> add_category(name, description).id # 0, page |-> "",
               flashes |-> << >>, body |-> add_category(name, description).id ]
  /\ Handled({"add_category"}, NoOutput)
  /\ UNCHANGED <<users, expenses, next_user_id, next_expense_id, session, reg, creator, amt, schema, conns, call>>

\* the rows that the INSERT IGNORE statements of create_tables add, one
\* statement after the other: a default name the table holds is skipped
RECURSIVE InsertIgnore(_, _, _)
InsertIgnore(rows, next_id, i) ==
  IF i > Len(default_categories) THEN rows
  ELSE InsertIgnore(
         IF \E cat \in rows : Collate(cat.name) = Collate(default_categories[i][1])
         THEN rows
         ELSE rows \cup {[id |-> next_id, name |-> default_categories[i][1],
                          description |-> default_categories[i][2]]},
         next_id + 1, i + 1)

\* python init_db.py run again: CREATE TABLE IF NOT EXISTS finds the
\* tables, the default categories are inserted with INSERT IGNORE
create_tables ==
  /\ Quiet
  /\ next_category_id + Len(default_categories) - 1 <= MaxCategoryId
  /\ categories' = InsertIgnore(categories, next_category_id, 1)
  /\ next_category_id' = next_category_id + Len(default_categories)
  /\ last' = [ client |-> "admin", op |-> "create_tables", arg |-> 0, ok |-> TRUE,
               page |-> "", flashes |-> << >>, body |-> 0 ]
  /\ Handled({}, NoOutput)
  /\ UNCHANGED <<users, expenses, next_user_id, next_expense_id, session, reg, creator, amt, schema, conns, call>>

\* the forms of one user, of a second registration with her e-mail and of
\* a registration with a short password
AdminRegForms == {f \in RegForms : f.name \in {"Ann", "Eve", "Sam"}}
AdminLoginForms == {f \in LoginForms : f.email = "a@x"}

NextAdmin ==
  \/ \E form \in AdminRegForms, salt \in Salt1 : Register(Browser, form, salt)
  \/ \E form \in AdminLoginForms : Login(Browser, form)
  \/ \E method \in {"GET", "POST"} : Logout(Browser, method)
  \/ \E form \in FaultForms : AddExpense(Browser, form)
  \/ \E id \in ExpenseIds, form \in FaultForms : EditExpense(Browser, id, form)
  \/ \E id \in ExpenseIds : DeleteExpense(Browser, id)
  \/ ApiCategories(Browser)
  \/ \E name \in CategoryNames : AddCategory(name, "")
  \/ create_tables

SpecAdmin == Init /\ [][NextAdmin]_vars

\* ------------------------------------------------------------------------
\* Routes without the login gate, next to the requests of one browser
\* ------------------------------------------------------------------------

\* random.randint(100, 999)
TestNums == {100, 999}

TestEmail(test_num) == "test" \o ToString(test_num) \o "@example.com"

\* GET /debug/create_test_user: register_user with a random e-mail and the
\* password 'password123'; register_user raises for an e-mail in use
CreateTestUser(c, test_num, salt) ==
  /\ reg[c] = Idle
  /\ Handled({"register_user"}, NoOutput)
  /\ UNCHANGED <<expenses, next_expense_id, session, reg, creator, amt, schema, categories, next_category_id, conns, call>>
  /\ IF schema.users = << >> \/ CountByEmail(TestEmail(test_num)) > 0
     THEN /\ last' = JsonResponse(c, "create_test_user", 200,
                       [success |-> FALSE, user_id |-> NoUser, email |-> "", password |-> ""])
          /\ UNCHANGED <<users, next_user_id>>
     ELSE /\ next_user_id <= MaxUserId
          /\ users' = users \cup
               { NewUserRow(next_user_id, "Test User " \o ToString(test_num),
                            TestEmail(test_num),
                            generate_password_hash("password123", salt)) }
          /\ next_user_id' = next_user_id + 1
          /\ last' = JsonResponse(c, "create_test_user", 200,
                       [success |-> TRUE, user_id |-> next_user_id,
                        email |-> TestEmail(test_num), password |-> "password123"])

\* GET /debug/session_info
DebugSessionInfo(c) ==
  /\ reg[c] = Idle
  /\ Handled({}, NoOutput)
  /\ last' = JsonResponse(c, "debug_session_info", 200,
               [session_data |-> session[c], is_logged_in |-> LoggedIn(session[c])])
  /\ UNCHANGED <<users, expenses, next_user_id, next_expense_id, session, reg, creator, amt, schema, categories, next_category_id, conns, call>>

\* GET /debug/all_tables handled without a failure: SHOW TABLES and
\* DESCRIBE of every table
DebugAllTables(c) ==
  /\ reg[c] = Idle
  /\ Handled({"debug_all_tables"}, NoOutput)
  /\ last' = JsonResponse(c, "debug_all_tables", 200,
               schema)
  /\ UNCHANGED <<users, expenses, next_user_id, next_expense_id, session, reg, creator, amt, schema, categories, next_category_id, conns, call>>

NextOpen ==
  \/ \E form \in AdminRegForms, salt \in Salt1 : Register(Browser, form, salt)
  \/ \E form \in AdminLoginForms : Login(Browser, form)
  \/ \E method \in {"GET", "POST"} : Logout(Browser, method)
  \/ \E form \in FaultForms : AddExpense(Browser, form)
  \/ \E id \in ExpenseIds : DeleteExpense(Browser, id)
  \/ Index(Browser)
  \/ ApiCategories(Browser)
  \/ \E test_num \in TestNums, salt \in Salt1 : CreateTestUser(Browser, test_num, salt)
  \/ DebugSessionInfo(Browser)
  \/ DebugAllTables(Browser)

SpecOpen == Init /\ [][NextOpen]_vars

\* ------------------------------------------------------------------------
\* An expenses table with a description column and no title column: title
\* and description share the description column
\* ------------------------------------------------------------------------

\* a title with a colon and a title longer than the cut of the listings
ColonTitle == <<"a", ":", "b">>
LongTitle == [i \in 1..(TitleCut + 1) |-> "x"]

TitleForms ==
  { [ExpenseForm(title, Amount1250, <<"1">>, 1) EXCEPT !.description = description] :
      title \in {Lunch, ColonTitle, LongTitle}, description \in {Team, Empty} }

InitTitle ==
  InitOn([users |-> users_columns, expenses |-> _get_table_structure_except.all_columns])

NextTitle ==
  \/ \E form \in {f \in RegForms : f.name = "Ann"}, salt \in Salt1 :
       Register(Browser, form, salt)
  \/ \E form \in {f \in LoginForms : f.email = "a@x"} : Login(Browser, form)
  \/ \E form \in TitleForms : AddExpense(Browser, form)
  \/ \E id \in ExpenseIds : EditExpenseGet(Browser, id)
  \/ \E id \in ExpenseIds : DeleteExpense(Browser, id)
  \/ ApiExpenses(Browser)

SpecTitle == InitTitle /\ [][NextTitle]_vars

\* ------------------------------------------------------------------------
\* The application on the database that python init_db.py creates: the
\* tables categories and expenses of create_tables, no table users
\* ------------------------------------------------------------------------

InitDb == InitOn([users |-> << >>, expenses |-> create_tables_expenses])

NextDb ==
  \/ \E c \in Clients, form \in RegForms, salt \in Salt1 : Register(c, form, salt)
  \/ \E c \in Clients, form \in LoginForms : Login(c, form)
  \/ \E c \in Clients, form \in FaultForms : AddExpense(c, form)
  \/ \E c \in Clients : Index(c)
  \/ \E c \in Clients : ApiCategories(c)
  \/ \E c \in Clients : DebugAllTables(c)
  \/ \E c \in Clients, method \in {"GET", "POST"} : Logout(c, method)
  \/ \E c \in Clients, id \in ExpenseIds : DeleteExpense(c, id)
  \/ \E name \in CategoryNames : AddCategory(name, "")
  \/ create_tables

SpecDb == InitDb /\ [][NextDb]_vars

\* ------------------------------------------------------------------------
\* Properties
\* ------------------------------------------------------------------------

\* C1: every expense that get_all_expenses, get_expense_by_id or
\* get_expenses_by_date_range returns to a session was added by the user of
\* that session; an expense added by user A is never returned to user B.
C1_ReadsAreOwnerScoped ==
  \A c \in Clients :
    /\ \A limit \in {0, 1, 10} :
         \A res \in get_all_expenses(session[c], limit) :
           \A i \in 1..Len(res) : creator[res[i].id] = session[c].user_id
    /\ \A id \in ExpenseIds :
         \A d \in get_expense_by_id(session[c], id) :
           creator[d.id] = session[c].user_id
    /\ \A start_date \in Dates, end_date \in Dates :
         \A res \in get_expenses_by_date_range(session[c], start_date, end_date) :
           \A i \in 1..Len(res) : creator[res[i].id] = session[c].user_id

\* a user has listed their own expenses while another user's expense is stored
C1_Witness ==
  /\ last.op = "api_expenses" /\ last.ok
  /\ \E e \in expenses : creator[e.id] # session[last.client].user_id
  /\ \E res \in get_all_expenses(session[last.client], 0) : Len(res) > 0

\* the expense with this id exists and belongs to another user than the
\* one logged in at browser c
ForeignExpense(c, id) ==
  /\ session[c].user_id # NoUser
  /\ \E e \in expenses : e.id = id /\ e.user_id # session[c].user_id

\* C2: an update or delete request for an expense owned by a different user
\* leaves every stored expense unchanged and fails, and the route reports
\* not found / access denied.
C2_ForeignWriteIsNoOp ==
  [][\A c \in Clients, id \in ExpenseIds :
       (last'.client = c /\ last'.arg = id /\ ForeignExpense(c, id)) =>
         /\ \A form \in ValidExpenseForms :
              EditExpense(c, id, form) =>
                /\ expenses' = expenses
                /\ ~last'.ok
                /\ last'.flashes =
                     << "Error updating expense. Expense not found or access denied.",
                        "Expense not found or access denied!" >>
         /\ DeleteExpense(c, id) =>
              /\ expenses' = expenses
              /\ ~last'.ok
              /\ last'.flashes = << "Error deleting expense or expense not found!" >>]_vars

\* an update or delete of another user's expense has just been refused
C2_Witness ==
  /\ last.op \in {"edit_expense", "delete_expense"}
  /\ ~last.ok
  /\ last.page = "index"
  /\ ForeignExpense(last.client, last.arg)

\* C3: a registration with an e-mail that already belongs to a stored user
\* fails (error shown, no user id) and leaves the users table as it was.
C3_DuplicateEmailRejected ==
  [][\A c \in Clients, form \in RegForms, salt \in Salts :
       ( /\ last'.op = "register" /\ last'.client = c
         /\ session[c].user_id = NoUser
         /\ form.name # "" /\ PasswordLen(form.password) >= 6
         /\ \E u \in users : u.email = StripLower(form.email)
         /\ Register(c, form, salt) )
       => /\ users' = users
          /\ next_user_id' = next_user_id
          /\ ~last'.ok
          /\ last'.page = "register"
          /\ last'.flashes = << "Error: User with email already exists!" >>]_vars

\* a registration has just been refused because the e-mail is taken
C3_Witness ==
  /\ last.op = "register" /\ ~last.ok
  /\ last.flashes = << "Error: User with email already exists!" >>
  /\ users # {}

\* C4: under any interleaving of concurrent registration requests, no two
\* stored users have the same e-mail.
C4_EmailsUnique ==
  \A u \in users, v \in users : u.email = v.email => u = v

\* what the claim says of a login request by browser c with this form: for
\* the stored user with the form's e-mail, the password the user registered
\* with logs in as exactly that user, any other password fails and leaves
\* the session without a user id
LoginOutcome(c, form) ==
  \A u \in users :
    u.email = StripLower(form.email) =>
      IF u.password = generate_password_hash(form.password, u.password.salt)
      THEN /\ last'.ok
           /\ session'[c] = [user_id |-> u.id, user_name |-> u.username,
                             user_email |-> u.email]
      ELSE /\ ~last'.ok
           /\ session'[c].user_id = NoUser

\* C5 as stated: every login request with a registered e-mail fails on a
\* wrong password, leaving the session without a user id, and succeeds on
\* the correct one, leaving the session holding exactly that user.
C5_LoginAnySession ==
  [][\A c \in Clients, form \in LoginForms :
       (last'.op = "login" /\ last'.client = c /\ Login(c, form))
         => LoginOutcome(c, form)]_vars

\* C5 amended: a login request made while the session holds no user id
\* fails on a wrong password, leaving the session without a user id, and
\* succeeds on the correct one, leaving the session holding exactly that
\* user's id, name and e-mail.
C5_LoginChecksPassword ==
  [][\A c \in Clients, form \in LoginForms :
       (last'.op = "login" /\ last'.client = c /\ session[c].user_id = NoUser
          /\ Login(c, form))
         => LoginOutcome(c, form)]_vars

\* a user has just logged in
C5_Witness ==
  /\ last.op = "login" /\ last.ok
  /\ last.flashes = << "Welcome back, Bob!" >>
  /\ session[last.client].user_name = "Bob"

\* the routes behind login_required
ProtectedOps ==
  { "index", "reports", "api_expenses", "api_stats", "add_expense",
    "edit_expense_get", "edit_expense", "delete_expense" }

\* C6 as stated: once a request to /logout, GET or POST, has been handled
\* the session holds no user id, user name or user e-mail.
C6_LogoutAnyMethodClears ==
  last.op \in {"logout_get", "logout_post"} => session[last.client] = EmptySession

\* C6 amended: once a POST to /logout has been handled the session holds no
\* user id, name or e-mail and the next request to a login-protected route
\* is redirected to login and changes nothing; a GET to /logout leaves the
\* session as it was.
C6_LogoutPostClears ==
  [][/\ last'.op = "logout_post" => session'[last'.client] = EmptySession
     /\ last'.op = "logout_get" => session' = session
     /\ (last.op = "logout_post" /\ last'.client = last.client
           /\ last'.op \in ProtectedOps)
          => /\ last' = LoginGate(last'.client, last'.op, last'.arg)
             /\ expenses' = expenses]_vars

\* Ann has just logged out with a POST
C6_Witness ==
  /\ last.op = "logout_post"
  /\ last.flashes = << "Goodbye Ann! You have been logged out successfully." >>
  /\ session[last.client] = EmptySession

\* the date ranges a total is asked for: none, or an inclusive range
Ranges == {<<NoDate, NoDate>>} \cup {r \in Dates \X Dates : r[1] <= r[2]}

\* the two-decimal amount, in hundredths, that a reported float stands for
ReportedCents(f) == CHOOSE n \in DOMAIN FloatOfCents : FloatOfCents[n] = f

RECURSIVE SumReported(_)
\* the sum, in hundredths, of the total_amount of the reported category rows
SumReported(rows) ==
  IF rows = {} THEN 0
  ELSE LET r == CHOOSE x \in rows : TRUE
       IN  ReportedCents(r.total_amount) + SumReported(rows \ {r})

\* C7: for the user of every session and every date range, the per-category
\* totals that get_expenses_by_category reports add up to the total that
\* get_total_expense reports for that range.
C7_CategoryTotalsSumToTotal ==
  \A c \in Clients :
    LoggedIn(session[c]) =>
      \A r \in Ranges :
        SumReported(get_expenses_by_category(session[c]))
          = ReportedCents(get_total_expense(session[c], r[1], r[2]))

\* the amount of the expense with this id when it belongs to the user and,
\* a range being given, is dated within it; otherwise nothing
AmountIfCounted(id, user_id, start_date, end_date) ==
  LET hit == {e \in expenses :
                /\ e.id = id
                /\ e.user_id = user_id
                /\ (start_date # NoDate /\ end_date # NoDate)
                      => (start_date <= e.expense_date /\ e.expense_date <= end_date)}
  IN  IF hit = {} THEN 0 ELSE (CHOOSE e \in hit : TRUE).amount

RECURSIVE SumUpTo(_, _, _, _)
\* the sum over the expense ids 1..id of the amounts that count
SumUpTo(id, user_id, start_date, end_date) ==
  IF id = 0 THEN 0
  ELSE AmountIfCounted(id, user_id, start_date, end_date)
         + SumUpTo(id - 1, user_id, start_date, end_date)

\* C8: in every reachable state get_total_expense returns, as a float, the
\* sum of the amounts of the session user's stored expenses, restricted to
\* the inclusive range when one is given.
C8_TotalIsSumOfStoredAmounts ==
  \A c \in Clients :
    LoggedIn(session[c]) =>
      \A r \in Ranges :
        get_total_expense(session[c], r[1], r[2])
          = safe_float(SumUpTo(MaxExpenseId, session[c].user_id, r[1], r[2]))

\* the dashboard has just been shown to a user who has an expense while
\* another user has one dated another day
C8_Witness ==
  /\ last.op = "index" /\ last.ok
  /\ \E e \in expenses, f \in expenses :
       /\ e.user_id = session[last.client].user_id
       /\ f.user_id # e.user_id
       /\ e.expense_date # f.expense_date

\* C9: a request to add an expense with no user id in the session stores
\* nothing, and every stored expense carries as user_id the id of the user
\* who was logged in when it was added.
C9_ExpensesBelongToTheirAdder ==
  [][/\ \A c \in Clients, form \in ExpenseForms :
          (last'.op = "add_expense" /\ last'.client = c
             /\ session[c].user_id = NoUser /\ AddExpense(c, form))
            => /\ expenses' = expenses
               /\ next_expense_id' = next_expense_id
               /\ last' = LoginGate(c, "add_expense", 0)
     /\ \A e \in expenses' :
          /\ e.id \in DOMAIN creator'
          /\ e.user_id = creator'[e.id]
          /\ e.user_id # NoUser]_vars

\* an expense has just been added while expenses of two users are stored
C9_Witness ==
  /\ last.op = "add_expense" /\ last.ok
  /\ \E e \in expenses, f \in expenses : e.user_id # f.user_id

\* the two-decimal amount, in hundredths, that a float shows when formatted
\* with two decimals
ShownCents(f) ==
  IF f.sign = 1 THEN -RoundScaled(f, 2) ELSE RoundScaled(f, 2)

\* C10 as stated: the amount is carried as a fixed-precision decimal all the
\* way, so what the route posts, what is stored, what is read back and the
\* total are each exactly the decimal amount, never a binary approximation.
C10_CarriedAsDecimal ==
  /\ amt.stage \in {"posted", "stored", "read", "total"}
       => FloatIsExactly(amt.posted, amt.typed)
  /\ amt.stage \in {"stored", "read", "total"} => amt.stored = amt.typed
  /\ amt.stage \in {"read", "total"} => FloatIsExactly(amt.read, amt.typed)
  /\ amt.stage = "total" => FloatIsExactly(amt.total, amt.typed + amt.other)

\* C10 amended: the DECIMAL(10,2) column holds exactly the two-decimal
\* amount typed; it is read back as the same float the route parsed from
\* the form, which shows the typed amount at two decimals; a total is the
\* float of the exact decimal sum and shows that sum at two decimals.
C10_AmountRoundTrip ==
  /\ amt.stage \in {"stored", "read", "total"} => amt.stored = amt.typed
  /\ amt.stage \in {"read", "total"}
       => /\ amt.read = amt.posted
          /\ ShownCents(amt.read) = amt.typed
  /\ amt.stage = "total" => ShownCents(amt.total) = amt.typed + amt.other

\* 12.50 has been posted, stored, read back and totalled
C10_Witness ==
  /\ amt.stage = "total"
  /\ amt.typed = 1250
  /\ amt.stored = 1250

\* the e-mail of the form is registered to nobody
UnknownEmail(form) == get_user_by_email(StripLower(form.email)) = {}

\* the e-mail of the form is registered and the password is not its password
WrongPassword(form) ==
  /\ get_user_by_email(StripLower(form.email)) # {}
  /\ \A u \in get_user_by_email(StripLower(form.email)) :
       ~check_password_hash(u.password, form.password)

\* C11: a login that fails gives the same observable response whether the
\* e-mail is unknown or is registered with another password: the one flash
\* message 'Invalid email or password!', the login page again, and a session
\* that is as much without a user as before.
C11_FailedLoginIsGeneric ==
  [][last'.op = "login" =>
       \A c \in {last'.client} \cap Clients : \A form \in LoginForms :
         ( /\ ~LoggedIn(session[c])
           /\ StripLower(form.email) # "" /\ form.password # ""
           /\ UnknownEmail(form) \/ WrongPassword(form)
           /\ Login(c, form) )
         => /\ last' = Response(c, "login", 0, FALSE, "login", <<"Invalid email or password!">>)
            /\ session' = session
            /\ ~LoggedIn(session'[c])]_vars

\* a login with a registered e-mail and a wrong password has just failed
C11_Witness ==
  /\ last.op = "login" /\ ~last.ok
  /\ last.flashes = <<"Invalid email or password!">>
  /\ called = {"validate_login"}
  /\ printed.hashes # {}

\* C12: every data-access failure is surfaced.  When a call of a request
\* raised (database unreachable, or a statement raising), an HTML route has
\* flashed a message and a JSON endpoint answers with an error field and a
\* status outside 2xx; the failure is not presented as a successful empty
\* list or a zero total.
C12_FailuresSurfaced ==
  (call.pc = "done" /\ call.failed # {} /\ call.route # "create_database")
    => IF call.route \in JsonRoutes
       THEN call.answer.error /\ call.answer.status \notin 200..299
       ELSE call.answer.flashes # << >>

\* C13: every database connection opened while a request is handled is
\* closed by the time the request ends, whether its statements succeeded or
\* raised: between requests no connection is open.  This covers the model
\* methods, the debug routes that open a connection themselves and the
\* init_db functions.
C13_ConnectionsClosed == Quiet => conns = 0

\* the calls of a route that raise in a process that has handled no request
\* before: its expense_model holds no table structure, so the first call
\* runs DESCRIBE expenses and, if that raises, works with the default
\* structure
FreshStructure(fault) ==
  IF fault \in {"unreachable", "describe"}
  THEN {_get_table_structure_except}
  ELSE {_get_table_structure}

FreshFailed(route, fault) ==
  { Plan(route)[i] : i \in { j \in 1..Len(Plan(route)) :
      \/ fault = "unreachable"
      \/ StatementRaises(Plan(route)[j], fault, FreshStructure(fault)) } }
    \cup (IF fault = "unreachable" /\ route \in ClosesUnbound
          THEN {"UnboundLocalError"} ELSE {})

\* C15: requests share no mutable state other than the database.  The answer
\* to a request depends only on its inputs, the session and the database
\* (its contents and what it does with each statement), not on state left in
\* the process by an earlier request such as the expenses-table structure
\* held on the shared expense_model: the answer is the one a process that
\* has handled no request before gives.
C15_AnswerIndependentOfProcessState ==
  [][(call.pc = "respond" /\ call'.pc = "done")
       => call'.answer = RouteAnswer(call.client, call.route,
                                     FreshFailed(call.route, call.fault), call.month)]_vars

\* a registration form with a missing field or a password shorter than 6
BadRegForm(form) ==
  \/ form.name = "" \/ StripLower(form.email) = "" \/ form.password = ""
  \/ PasswordLen(form.password) < 6

\* an expense form with a missing required field or a non-numeric value
BadExpenseForm(form) == ExpenseFormIncomplete(form) \/ ExpenseFormValueError(form)

\* the forms with a validation error
BadRegForms == {form \in RegForms : BadRegForm(form)}
BadLoginForms == {form \in LoginForms : StripLower(form.email) = "" \/ form.password = ""}
BadExpenseForms == {form \in ExpenseForms : BadExpenseForm(form)}

\* the latest request came with a validation error: a registration or login
\* form of a visitor, an add or edit form of a logged-in user
ValidationError(c) ==
  CASE last'.op = "register" ->
         /\ ~LoggedIn(session[c])
         /\ \E form \in BadRegForms, salt \in Salt1 : Register(c, form, salt)
    [] last'.op = "login" ->
         /\ ~LoggedIn(session[c])
         /\ \E form \in BadLoginForms : Login(c, form)
    [] last'.op = "add_expense" ->
         /\ LoggedIn(session[c])
         /\ \E form \in BadExpenseForms : AddExpense(c, form)
    [] last'.op = "edit_expense" ->
         /\ LoggedIn(session[c])
         /\ last'.arg \in ExpenseIds
         /\ \E form \in BadExpenseForms : EditExpense(c, last'.arg, form)
    [] OTHER -> FALSE

\* C14: a request with a validation error (a missing required field, a
\* non-numeric amount, a password shorter than 6) is rejected before the
\* data layer: no data-access method is called and no user or expense row
\* is created or changed.
C14_NoDataAccess ==
  [][\A c \in {last'.client} \cap Clients :
       ValidationError(c) => called' = {} /\ users' = users /\ expenses' = expenses]_vars

\* C14 as amended: no row is created or changed and no writing method is
\* called; register and login call no data-access method at all, the
\* expense forms only the reads that show the form again.
C14_NoWrite ==
  [][\A c \in {last'.client} \cap Clients :
       ValidationError(c)
         => /\ users' = users /\ expenses' = expenses
            /\ next_user_id' = next_user_id /\ next_expense_id' = next_expense_id
            /\ called' \subseteq {"get_all_categories", "get_expense_by_id"}
            /\ last'.op \in {"register", "login"} => called' = {}
            /\ ~last'.ok]_vars

\* an add form with a non-numeric amount was just rejected
C14_Witness ==
  /\ last.op = "add_expense" /\ last.flashes = <<"Invalid input">>
  /\ called = {"get_all_categories"}
  /\ users # {}

\* C16: once a user is registered, no operation (login, logout, a later
\* registration attempt, any expense or category operation) changes or
\* removes that user's id, name, e-mail or password hash: every stored user
\* row is still stored after every step.
C16_UsersImmutable ==
  [][\A u \in users :
       \E v \in users' : /\ v.id = u.id /\ v.username = u.username
                          /\ v.email = u.email /\ v.password = u.password]_vars

\* a user who owns an expense is registered and a later registration with
\* her e-mail has just been turned down
C16_Witness ==
  /\ users # {} /\ expenses # {}
  /\ last.op = "register" /\ ~last.ok
  /\ last.flashes = <<"Error: User with email already exists!">>

\* the requests about users and expenses
UserOrExpenseOps ==
  { "register", "login", "logout_get", "logout_post",
    "add_expense", "edit_expense", "delete_expense" }

\* C17: the category list is global.  /api/categories answers with the
\* result of get_all_categories, all stored categories, whichever user is in
\* the session and also when no user is logged in, and no expense or user
\* operation changes the list.
C17_CategoriesGlobal ==
  [][/\ \A c \in Clients :
          (last'.op = "api_categories" /\ last'.client = c /\ ApiCategories(c))
            => /\ last'.ok
               /\ last'.body = get_all_categories
               /\ {last'.body[i] : i \in 1..Len(last'.body)} = categories
     /\ last'.op \in UserOrExpenseOps => categories' = categories]_vars

\* a logged-in user who has an expense reads the list after a category was
\* added
C17_Witness ==
  /\ last.op = "api_categories" /\ last.ok
  /\ LoggedIn(session[last.client])
  /\ expenses # {}
  /\ Len(last.body) = Len(default_categories) + 1

\* no two rows of the given categories have the same name
UniqueNames(rows) == \A a \in rows : \A b \in rows : a.name = b.name => a = b

\* C18: category names are unique in every reachable state: add_category
\* with a name that already exists returns None and leaves the categories
\* unchanged, and running the seeding of the default categories again adds
\* no category.
C18_CategoryNamesUnique ==
  [][/\ UniqueNames(categories) /\ UniqueNames(categories')
     /\ \A name \in CategoryNames :
          ( /\ last'.op = "add_category"
            /\ \E cat \in categories : cat.name = name
            /\ AddCategory(name, "") )
          => ~last'.ok /\ last'.body = 0 /\ categories' = categories
     /\ (last'.op = "create_tables" /\ create_tables) => categories' = categories]_vars

\* an insert of a name that exists has just been turned down, after the
\* seeding ran a second time
C18_Witness ==
  /\ last.op = "add_category" /\ ~last.ok
  /\ next_category_id > 2 * Len(default_categories)

\* C19: the stored password of every user is a salted hash, never the
\* submitted plaintext: the password column holds a salt and the digest of
\* salt and password, which verifies against the password given at
\* registration, and register and login write the plaintext nowhere else.
C19_PlaintextNeverWritten ==
  /\ \A u \in users :
       /\ u.password.salt \in Salts
       /\ \E form \in RegForms :
            /\ StripLower(form.email) = u.email
            /\ check_password_hash(u.password, form.password)
  /\ printed.passwords = {}

\* C20: update_expense returns True exactly when the target expense exists
\* and is owned by the session user, whatever the new values; in particular
\* an update of an owned expense with values equal to the stored ones is
\* reported as success.
C20_UpdateTrueIffOwned ==
  \A c \in Clients : \A id \in ExpenseIds : \A form \in ValidExpenseForms :
    update_expense(session[c], id, form.title, FloatOfText[form.amount].val,
                   PyInt(form.category_id).val, form.description,
                   form.expense_date).ok
      <=> ( /\ LoggedIn(session[c])
            /\ \E e \in expenses : e.id = id /\ e.user_id = session[c].user_id )

\* C21: a request without a user id in the session never creates, changes
\* or deletes a row, except a successful /register that creates the new
\* user, and apart from /register and /login no route reaches the database
\* for such a request
C21_NoRowChangeWithoutSession ==
  [][\A c \in {last'.client} \cap Clients :
       ~LoggedIn(session[c])
       => /\ \/ users' = users /\ expenses' = expenses /\ categories' = categories
             \/ /\ last'.op = "register" /\ last'.ok
                /\ users \subseteq users' /\ Cardinality(users' \ users) = 1
                /\ expenses' = expenses /\ categories' = categories
          /\ last'.op \notin {"register", "login"} => called' = {}]_vars

\* C22: on an expenses table with a description column and no title column,
\* after add_expense(title, description) both get_expense_by_id and
\* get_all_expenses return that title and that description
C22_TitleRoundTrip ==
  [][\A form \in TitleForms : \A id \in ExpenseIds :
       ( /\ last'.op = "add_expense" /\ last'.ok
         /\ id = next_expense_id
         /\ ~_get_table_structure.has_title /\ _get_table_structure.has_description
         /\ AddExpense(Browser, form) )
       => /\ get_expense_by_id(session[Browser], id)' # {}
          /\ \A e \in get_expense_by_id(session[Browser], id)' :
               e.title = form.title /\ e.description = form.description
          /\ \A listed \in get_all_expenses(session[Browser], 0)' :
               \E i \in 1..Len(listed) :
                 /\ listed[i].id = id
                 /\ listed[i].title = form.title
                 /\ listed[i].description = form.description]_vars

\* C23: register, login and add_expense with valid inputs succeed, and the
\* expense added is among those get_all_expenses returns for that user
C23_RegisterLoginAddSucceed ==
  [][\A c \in {last'.client} \cap Clients :
       /\ \A form \in RegForms, salt \in Salt1 :
            ( /\ last'.op = "register" /\ ~LoggedIn(session[c])
              /\ RegisterInvalid(form) = ""
              /\ CountByEmail(StripLower(form.email)) = 0
              /\ Register(c, form, salt) )
            => /\ last'.ok
               /\ \E u \in users' \ users : u.email = StripLower(form.email)
       /\ \A form \in LoginForms :
            ( /\ last'.op = "login" /\ ~LoggedIn(session[c])
              /\ \E u \in users : /\ u.email = StripLower(form.email)
                                  /\ check_password_hash(u.password, form.password)
              /\ Login(c, form) )
            => last'.ok /\ LoggedIn(session'[c])
       /\ \A form \in ValidExpenseForms : \A id \in ExpenseIds :
            ( /\ last'.op = "add_expense" /\ LoggedIn(session[c])
              /\ id = next_expense_id
              /\ AddExpense(c, form) )
            => /\ last'.ok
               /\ \A listed \in get_all_expenses(session[c], 0)' :
                    \E i \in 1..Len(listed) : listed[i].id = id]_vars

\* C24: a /login or /register request of a session that holds a user id
\* changes neither the session nor a table, and no request replaces the
\* user of a session by another user: between two users the session is empty
C24_NoSwitchOfUser ==
  [][\A c \in Clients :
       LoggedIn(session[c])
       => /\ (last'.client = c /\ last'.op \in {"login", "register"})
               => /\ session' = session
                  /\ users' = users /\ expenses' = expenses /\ categories' = categories
                  /\ ~last'.ok
          /\ LoggedIn(session'[c]) => session'[c] = session[c]]_vars

\* a logged-in user has sent a login form and was redirected to the
\* dashboard while another user is registered
C24_Witness ==
  /\ LoggedIn(session[Browser])
  /\ last = Response(Browser, "login", 0, FALSE, "index", << >>)
  /\ \E u \in users : u.id # session[Browser].user_id

\* the ids and owners of the stored expenses
IdsAndOwners(rows) == {<<e.id, e.user_id>> : e \in rows}

\* C25: delete_expense of the owner removes exactly the expense named and
\* reports success, every other expense of every user staying as it is; a
\* delete of an id that is missing or not owned, in particular the same
\* delete again, reports failure and changes nothing; update_expense
\* changes no expense's id or user_id
C25_DeleteAndUpdateFrame ==
  [][\A c \in {last'.client} \cap Clients :
       /\ (last'.op = "delete_expense" /\ LoggedIn(session[c]))
            => /\ last'.ok = (\E e \in expenses : /\ e.id = last'.arg
                                                  /\ e.user_id = session[c].user_id)
               /\ expenses' = IF last'.ok THEN {e \in expenses : e.id # last'.arg}
                              ELSE expenses
               /\ ( last.op = "delete_expense" /\ last.ok /\ last.client = c
                    /\ last.arg = last'.arg )
                    => ~last'.ok /\ expenses' = expenses
       /\ last'.op = "edit_expense"
            => IdsAndOwners(expenses') = IdsAndOwners(expenses)]_vars

\* a user has deleted an expense of hers while an expense of another user
\* is stored
C25_Witness ==
  /\ last.op = "delete_expense" /\ last.ok /\ last.client = Browser
  /\ LoggedIn(session[Browser])
  /\ \E e \in expenses : e.user_id # session[Browser].user_id

RECURSIVE SumListed(_, _)
\* the sum, in hundredths, of the amounts of the first i listed expenses
SumListed(listed, i) ==
  IF i = 0 THEN 0 ELSE ReportedCents(listed[i].amount) + SumListed(listed, i - 1)

\* C26: get_total_expense with one bound missing returns the user's total
\* over all dates; with both bounds it covers the expenses that
\* get_expenses_by_date_range lists for the same bounds, its total being the
\* sum of the listed amounts
C26_TotalMatchesDateRange ==
  \A c \in Clients :
    LoggedIn(session[c]) =>
      \A start_date \in Dates \cup {NoDate}, end_date \in Dates \cup {NoDate} :
        IF start_date = NoDate \/ end_date = NoDate
        THEN get_total_expense(session[c], start_date, end_date)
               = get_total_expense(session[c], NoDate, NoDate)
        ELSE \A listed \in get_expenses_by_date_range(session[c], start_date, end_date) :
               /\ ReportedCents(get_total_expense(session[c], start_date, end_date))
                    = SumListed(listed, Len(listed))
               /\ {listed[i].id : i \in 1..Len(listed)}
                    = {e.id : e \in TotalRows(session[c].user_id, start_date, end_date)}

\* the reports page has just been shown to a user with expenses dated on
\* different days
C26_Witness ==
  /\ last.op = "reports" /\ last.ok
  /\ \E e \in expenses, f \in expenses :
       /\ e.user_id = session[last.client].user_id
       /\ f.user_id = e.user_id
       /\ e.expense_date # f.expense_date

\* the limits get_all_expenses is asked with: none (0), every limit that can
\* cut a list of the model, and the dashboard's
Limits == 0..(MaxExpenseId + 1) \cup {10}

\* C27: get_all_expenses lists the session user's expenses by non-increasing
\* date; with limit n > 0 it lists min(n, count) of them and none of those is
\* older than an expense it leaves out, so the dashboard shows at most 10
C27_LatestFirstWithinLimit ==
  \A c \in Clients :
    LoggedIn(session[c]) =>
      \A limit \in Limits :
        \A listed \in get_all_expenses(session[c], limit) :
          LET own == {e \in expenses : e.user_id = session[c].user_id}
              shown == {listed[i].id : i \in 1..Len(listed)}
          IN  /\ shown \subseteq {e.id : e \in own}
              /\ Cardinality(shown) = Len(listed)
              /\ \A i \in 1..Len(listed), j \in 1..Len(listed) :
                   i < j => listed[i].expense_date >= listed[j].expense_date
              /\ Len(listed) = IF limit > 0 /\ limit < Cardinality(own)
                               THEN limit ELSE Cardinality(own)
              /\ limit = 10 => Len(listed) <= 10
              /\ \A e \in own :
                   e.id \notin shown =>
                     \A i \in 1..Len(listed) : listed[i].expense_date >= e.expense_date

\* the dashboard has just been shown to a user with expenses dated on
\* different days, which a limit of one tells apart
C27_Witness ==
  /\ last.op = "index" /\ last.ok
  /\ LoggedIn(session[last.client])
  /\ \E e \in expenses, f \in expenses :
       /\ e.user_id = session[last.client].user_id
       /\ f.user_id = e.user_id
       /\ e.expense_date < f.expense_date
       /\ \A listed \in get_all_expenses(session[last.client], 1) :
            Len(listed) = 1 /\ listed[1].expense_date >= f.expense_date

====
